---- MODULE Spec2Model ----
(***************************************************************************)
(* CoreDB: single-node LSM storage engine (database coordinator, commit    *)
(* log, memtable, SSTable writer/reader).                                  *)
(*                                                                         *)
(* The coordinator's asynchronous operations are split at their await      *)
(* points that take a lock or touch the disk; each client is one task      *)
(* calling one operation at a time.                                        *)
(***************************************************************************)
EXTENDS Integers, Sequences, FiniteSets, TLC

\* ------------------------------------------------------------------ bounds
MaxPK == 2          \* partition keys are Int(1)..Int(MaxPK)
MaxCK == 0          \* clustering keys are None (0) or BigInt(1)..BigInt(MaxCK)
MaxTs == 2          \* write timestamps 1..MaxTs
MaxSkew == 0        \* largest distance of a cell's timestamp from its row's
MaxWal == 2         \* insert_row calls admitted (records written or buffered)
MaxSSTables == 2    \* SSTable files created (uuids handed out)
MaxRestarts == 1    \* engine restarts on the same directories
MaxIoFailures == 1  \* injected disk failures
MaxWalOps == 5      \* operations made on a CommitLog exercised on its own
MaxKeep == 1        \* largest keep_segments handed to cleanup_old_segments
MaxPuts == 2        \* Memtable::put calls of one thread
MaxScanCK == 2      \* clustering keys BigInt(1)..BigInt(MaxScanCK) of the scanned memtable
MaxLevels == 2      \* largest max_levels of a LevelManager
MaxMultiplier == 1  \* largest level_size_multiplier of a LevelManager
MaxKeyValue == 2    \* key components Int(1..), Text of 1.. letters, Map of 1.. entries

Clients == {"c1", "c2"}
Admins == {"c1"}    \* the clients that also issue the schema, flush and shutdown calls
KeyspaceNames == {"ks1"}
TableNames == {"t1"}
SystemKeyspaces == {"system", "system_schema"}
ThresholdsMb == {0, 64}

PartitionKeys == 1..MaxPK
NoneCK == 0
ClusteringKeys == 0..MaxCK
Timestamps == 1..MaxTs

\* Row { partition_key, clustering_key, cells, timestamp }; one regular
\* column "value" whose Cell carries its own write timestamp and its
\* tombstone flag.
AllRows == [partition_key : PartitionKeys, clustering_key : ClusteringKeys,
            cells : [value : [timestamp : Timestamps, is_deleted : BOOLEAN]],
            timestamp : Timestamps]

SkewOk(r) == /\ r.cells.value.timestamp - r.timestamp <= MaxSkew
             /\ r.timestamp - r.cells.value.timestamp <= MaxSkew

\* rows of live cells
Rows == {r \in AllRows : SkewOk(r) /\ ~r.cells.value.is_deleted}

\* rows whose cell is a tombstone
TombstoneRows == {r \in AllRows : SkewOk(r) /\ r.cells.value.is_deleted}

NoRow == [partition_key |-> 0, clustering_key |-> 0,
          cells |-> [value |-> [timestamp |-> 0, is_deleted |-> FALSE]],
          timestamp |-> 0]

\* ------------------------------------------------------- generic helpers
Upsert(f, k, v) == [x \in (DOMAIN f) \cup {k} |-> IF x = k THEN v ELSE f[x]]

EmptyMap == [x \in {} |-> 0]

RECURSIVE SumSeq(_)
SumSeq(s) == IF s = <<>> THEN 0 ELSE Head(s) + SumSeq(Tail(s))

RECURSIVE SetToSortedSeq(_)
SetToSortedSeq(S) ==
    IF S = {} THEN <<>>
    ELSE LET m == CHOOSE x \in S : \A y \in S : x <= y
         IN <<m>> \o SetToSortedSeq(S \ {m})

RECURSIVE SumOver(_, _)
SumOver(S, f) ==
    IF S = {} THEN 0
    ELSE LET x == CHOOSE y \in S : TRUE IN f[x] + SumOver(S \ {x}, f)

\* ------------------------------------------------------------- u64 / u32
\* size_bytes is an AtomicU64 updated with wrapping fetch_add.  The model
\* evaluates in 31-bit integers, so the counter wraps at 2^30: far above
\* every size and threshold that occurs, and still a wrap-around.
U64Modulus == 1073741824

WrappingAdd(a, d) == (a + d + U64Modulus) % U64Modulus

\* ------------------------------------------------------------ schema.rs
IntSize == 4
BigIntSize == 8

\* PartitionKey::serialized_size: 8-byte length prefix + one Int component
PartitionKeySerializedSize(pk) == 8 + IntSize

\* ClusteringKey::serialized_size: 8-byte length prefix + one BigInt
ClusteringKeySerializedSize(ck) == 8 + BigIntSize

\* ---------------------------------------------------------- memtable.rs
ColumnNameLen == 5      \* "value".len()
CellMetaSize == 16      \* timestamp + ttl + flags

\* every column name is five bytes long and every cell holds an Int
calculate_row_size(row) ==
    PartitionKeySerializedSize(row.partition_key)
    + (IF row.clustering_key # NoneCK
       THEN ClusteringKeySerializedSize(row.clustering_key) ELSE 0)
    + Cardinality(DOMAIN row.cells) * (ColumnNameLen + IntSize + CellMetaSize)

PartitionNew == [rows |-> EmptyMap, static_columns |-> EmptyMap]

MemtableNew == [partitions |-> EmptyMap, size_bytes |-> 0]

MemtableHas(m, pk, ck) ==
    /\ pk \in DOMAIN m.partitions
    /\ ck \in DOMAIN m.partitions[pk].rows

\* put that adds the size of the row also when it replaces a row
put_adding_row_size(m, row) ==
    LET pk == row.partition_key
        ck == row.clustering_key
        partition == IF pk \in DOMAIN m.partitions
                     THEN m.partitions[pk] ELSE PartitionNew
    IN [partitions |->
            Upsert(m.partitions, pk,
                   [partition EXCEPT !.rows = Upsert(partition.rows, ck, row)]),
        size_bytes |-> WrappingAdd(m.size_bytes, calculate_row_size(row))]

put(m, row) ==
    LET pk == row.partition_key
        ck == row.clustering_key
        partition == IF pk \in DOMAIN m.partitions
                     THEN m.partitions[pk] ELSE PartitionNew
        row_size == calculate_row_size(row)
        new_size ==
            IF ck \in DOMAIN partition.rows
            THEN WrappingAdd(m.size_bytes,
                             row_size - calculate_row_size(partition.rows[ck]))
            ELSE WrappingAdd(m.size_bytes, row_size)
    IN [partitions |->
            Upsert(m.partitions, pk,
                   [partition EXCEPT !.rows = Upsert(partition.rows, ck, row)]),
        size_bytes |-> new_size]

\* Option<Row>: [kind |-> "none"] or [kind |-> "row", row |-> r]
None == [kind |-> "none"]
SomeRow(r) == [kind |-> "row", row |-> r]

get(m, pk, ck) ==
    IF MemtableHas(m, pk, ck) THEN SomeRow(m.partitions[pk].rows[ck]) ELSE None

\* range_scan with the range start..end, which leaves the end out
range_scan_exclusive(m, partition_key, start_clustering, end_clustering) ==
    IF partition_key \in DOMAIN m.partitions
    THEN LET rows == m.partitions[partition_key].rows
             keys == SetToSortedSeq({k \in DOMAIN rows :
                                        start_clustering <= k /\ k < end_clustering})
         IN [i \in 1..Len(keys) |-> rows[keys[i]]]
    ELSE <<>>

\* Memtable::range_scan: SkipMap::range(start..=end) over the keys of type
\* Option<ClusteringKey>, in which None (0 here) is below every Some(_) and
\* a range whose start is above its end holds nothing
range_scan(m, partition_key, start_clustering, end_clustering) ==
    IF partition_key \in DOMAIN m.partitions
    THEN LET rows == m.partitions[partition_key].rows
             keys == SetToSortedSeq({k \in DOMAIN rows :
                                        start_clustering <= k /\ k <= end_clustering})
         IN [i \in 1..Len(keys) |-> rows[keys[i]]]
    ELSE <<>>

partition_count(m) == Cardinality(DOMAIN m.partitions)

\* sorted enumeration of (key, partition) pairs
get_all_partitions(m) == SetToSortedSeq(DOMAIN m.partitions)

MemtableRows(m) ==
    {m.partitions[pk].rows[ck] :
        <<pk, ck>> \in {k \in PartitionKeys \X ClusteringKeys :
                            MemtableHas(m, k[1], k[2])}}

\* u32 framing.  tokio's AsyncWriteExt::write_u32 writes big-endian; the
\* readers decode the four bytes with u32::from_le_bytes.
u32_be_bytes(n) ==
    <<(n \div 16777216) % 256, (n \div 65536) % 256, (n \div 256) % 256, n % 256>>

u32_le_bytes(n) ==
    <<n % 256, (n \div 256) % 256, (n \div 65536) % 256, (n \div 16777216) % 256>>

\* Every file of the model is shorter than 2^16 bytes, so a decoded length of
\* 2^16 or more is kept as the saturated value U32Huge: all the code does
\* with it is to read that many bytes, which runs past the end of the file.
U32Huge == 65536

u32_from_le_bytes(b) ==
    IF b[3] = 0 /\ b[4] = 0 THEN b[1] + 256 * b[2] ELSE U32Huge

\* ---------------------------------------------------------------- wal.rs
KeyspaceNameLen == 3    \* "ks1"
TableNameLen == 2       \* "t1"

\* bincode length of a Row: Vec<CassandraValue::Int> key (8 + 4 + 4), the
\* Option<ClusteringKey> (1, or 1 + 8 + 4 + 8), the one-entry cell map
\* (8 + (8 + 5) + (4 + 4) + 8 + 1 + 1) and the i64 timestamp.
RowBincodeSize(row) ==
    16 + (IF row.clustering_key = NoneCK THEN 1 ELSE 21) + 39 + 8

\* bincode length of a CommitLogEntry { keyspace, table, Insert(row), timestamp }
EntrySize(entry) ==
    (8 + KeyspaceNameLen) + (8 + TableNameLen) + 4 + RowBincodeSize(entry.row) + 8

SegmentSizeLimit == 33554432    \* 32 * 1024 * 1024

CommitLogEntry(ks, t, row) ==
    [keyspace |-> ks, table |-> t, mutation |-> "Insert", row |-> row]

\* one record of a segment file: [u32 length][serialized entry]
WalRecord(entry) == [prefix |-> u32_be_bytes(EntrySize(entry)), entry |-> entry]

\* CommitLog::new: opens (creating it if missing) commitlog-0.log for append
CommitLogNew ==
    [segment_id |-> 0, current_segment_size |-> 0,
     segment_size_limit |-> SegmentSizeLimit, buffer |-> <<>>]

OpenSegment(files, id) == IF id \in DOMAIN files THEN files ELSE Upsert(files, id, <<>>)

\* BufWriter::flush: the buffered records reach the segment file
FlushSegment(cl, files) ==
    [files EXCEPT ![cl.segment_id] = files[cl.segment_id] \o cl.buffer]

\* rotate_segment with the reset of current_segment_size left out
rotate_segment_keeping_size(cl, files) ==
    [log |-> [cl EXCEPT !.segment_id = cl.segment_id + 1,
                        !.buffer = <<>>],
     files |-> OpenSegment(FlushSegment(cl, files), cl.segment_id + 1)]

\* rotate_segment: result is the pair [log, files]
rotate_segment(cl, files) ==
    [log |-> [cl EXCEPT !.segment_id = cl.segment_id + 1,
                        !.current_segment_size = 0,
                        !.buffer = <<>>],
     files |-> OpenSegment(FlushSegment(cl, files), cl.segment_id + 1)]

\* append with the final current_segment.flush() left out: the record stays
\* in the BufWriter
append_without_flush(cl, files, entry) ==
    LET entry_size == EntrySize(entry)
        r == IF cl.current_segment_size + entry_size + 4 > cl.segment_size_limit
             THEN rotate_segment(cl, files)
             ELSE [log |-> cl, files |-> files]
    IN [log |-> [r.log EXCEPT !.buffer = r.log.buffer \o <<WalRecord(entry)>>,
                              !.current_segment_size =
                                  r.log.current_segment_size + entry_size + 4],
        files |-> r.files]

\* CommitLog::append, successful: result is the pair [log, files]
append(cl, files, entry) ==
    LET entry_size == EntrySize(entry)
        r == IF cl.current_segment_size + entry_size + 4 > cl.segment_size_limit
             THEN rotate_segment(cl, files)
             ELSE [log |-> cl, files |-> files]
        written == [r.log EXCEPT !.buffer = r.log.buffer \o <<WalRecord(entry)>>]
    IN [log |-> [written EXCEPT !.buffer = <<>>,
                                !.current_segment_size =
                                    r.log.current_segment_size + entry_size + 4],
        files |-> FlushSegment(written, r.files)]

\* CommitLog::append failing in the final flush: the record stays in the
\* BufWriter and current_segment_size is not advanced
append_flush_failed(cl, entry) ==
    [cl EXCEPT !.buffer = cl.buffer \o <<WalRecord(entry)>>]

RECURSIVE WalEntriesFrom(_, _)
WalEntriesFrom(files, id) ==
    IF id \notin DOMAIN files THEN <<>>
    ELSE [i \in 1..Len(files[id]) |-> files[id][i].entry]
         \o WalEntriesFrom(files, id + 1)

\* the entries held by the segment files, in segment and append order
WalEntries(files) == WalEntriesFrom(files, 0)

\* Err(_) of a Result
Err == [kind |-> "err"]

\* Result<Vec<CommitLogEntry>>
OkEntries(entries) == [kind |-> "ok", entries |-> entries]

\* what a crash leaves of a record that was being written: cut is "prefix"
\* when fewer than the 4 bytes of the length are in the file, "body" when
\* the length is whole and the entry is not
TruncatedRecord(entry, cut) ==
    [prefix |-> u32_be_bytes(EntrySize(entry)), entry |-> entry, cut |-> cut]

IsTruncated(record) == "cut" \in DOMAIN record

\* bytes of a record in the file (a truncated one lacks at least one byte
\* of the part that was cut)
RecordLen(record) ==
    IF ~IsTruncated(record) THEN 4 + EntrySize(record.entry)
    ELSE IF record.cut = "prefix" THEN 3
    ELSE 4 + EntrySize(record.entry) - 1

\* the read loop of replay_from_segment over the records left in the file
RECURSIVE ReplayRecords(_, _)
ReplayRecords(records, entries) ==
    IF records = <<>> THEN OkEntries(entries)
    ELSE LET record == Head(records)
             left == SumSeq([i \in 1..Len(records) |-> RecordLen(records[i])])
             entry_size == u32_from_le_bytes(record.prefix)
         IN IF left < 4 THEN OkEntries(entries)
            ELSE IF IsTruncated(record) /\ record.cut = "prefix" THEN Err
            ELSE IF entry_size > left - 4 THEN Err
            ELSE IF IsTruncated(record) \/ entry_size # EntrySize(record.entry)
                 THEN Err
            ELSE ReplayRecords(Tail(records), Append(entries, record.entry))

replay_from_segment(files, segment_id) ==
    IF segment_id \notin DOMAIN files THEN OkEntries(<<>>)
    ELSE ReplayRecords(files[segment_id], <<>>)

RECURSIVE ReplayAllFrom(_, _, _)
ReplayAllFrom(files, segment_id, all_entries) ==
    LET r == replay_from_segment(files, segment_id)
    IN IF r.kind = "err" THEN Err
       ELSE IF r.entries = <<>> THEN OkEntries(all_entries)
       ELSE ReplayAllFrom(files, segment_id + 1, all_entries \o r.entries)

replay_all(files) == ReplayAllFrom(files, 0, <<>>)

saturating_sub(a, b) == IF a >= b THEN a - b ELSE 0

RemoveFile(files, id) == [x \in (DOMAIN files) \ {id} |-> files[x]]

\* the loop of cleanup_old_segments from segment_id on: it ends at the first
\* segment file that does not exist
RECURSIVE CleanupFrom(_, _, _, _)
CleanupFrom(cl, files, keep_segments, segment_id) ==
    IF segment_id \notin DOMAIN files THEN files
    ELSE CleanupFrom(cl,
                     IF segment_id < saturating_sub(cl.segment_id, keep_segments)
                     THEN RemoveFile(files, segment_id) ELSE files,
                     keep_segments, segment_id + 1)

cleanup_old_segments(cl, files, keep_segments) == CleanupFrom(cl, files, keep_segments, 0)

\* -------------------------------------------------------- bloom_filter.rs
\* Bloom<Vec<u8>> is a bit array; set turns on the bits the hashes of the
\* key select, check asks whether all of them are on.  The array is scaled to
\* BloomBitCount bits and two hashes, so that different keys share bits.
BloomBitCount == 3

\* serialize_key and the bit positions Bloom derives from it
KeyBits(key) == {key % BloomBitCount, (key + 1) % BloomBitCount}

BloomFilterNew(expected_items) == [expected_items |-> expected_items, bits |-> {}]

\* add that turns on the first bit of the key only
add_one_bit(bf, key) == [bf EXCEPT !.bits = bf.bits \cup {key % BloomBitCount}]

add(bf, key) == [bf EXCEPT !.bits = bf.bits \cup KeyBits(key)]

might_contain(bf, key) == KeyBits(key) \subseteq bf.bits

\* impl Serialize: the two fields expected_items and false_positive_rate
\* (0.01 in every filter of the program), without the bit array
SerializeBloom(bf) == [expected_items |-> bf.expected_items]

\* impl Deserialize: BloomFilter::new on the two fields
DeserializeBloom(data) == BloomFilterNew(data.expected_items)

\* ------------------------------------------------------------ sstable.rs
HeaderSize == 56        \* bincode length of SSTableHeader
StaticLen == 8          \* bincode length of the empty static-column map
BloomLen == 16          \* bincode length of BloomFilter { usize, f64 }
SampleRate == 128
I64Max == 1073741823    \* i64::MAX, as the largest value of the model
I64Min == -1073741823   \* i64::MIN

Min(a, b) == IF a <= b THEN a ELSE b

Max(a, b) == IF a >= b THEN a ELSE b

\* serialize_partition before compression:
\*   [u32 static_len][static map][u32 row_count]([u32 row_len][row])*
\* with the rows sorted by clustering key (None first)
SerializedRows(partition) ==
    LET cks == SetToSortedSeq(DOMAIN partition.rows)
    IN [i \in 1..Len(cks) |->
            [prefix |-> u32_be_bytes(RowBincodeSize(partition.rows[cks[i]])),
             row |-> partition.rows[cks[i]]]]

RawLen(rows) ==
    4 + StaticLen + 4 + SumSeq([i \in 1..Len(rows) |-> 4 + RowBincodeSize(rows[i].row)])

\* the compressed block.  lz4_flex::compress_prepend_size puts a 4-byte
\* size in front; the body of so short an input is taken at its own length.
serialize_partition(partition, compression) ==
    LET rows == SerializedRows(partition)
    IN [compression |-> compression,
        static_prefix |-> u32_be_bytes(StaticLen),
        static_columns |-> partition.static_columns,
        count_prefix |-> u32_be_bytes(Len(rows)),
        rows |-> rows,
        len |-> RawLen(rows) + (IF compression = "None" THEN 0 ELSE 4)]

NoBlock == [compression |-> "None", static_prefix |-> <<0, 0, 0, 0>>,
            static_columns |-> EmptyMap, count_prefix |-> <<0, 0, 0, 0>>,
            rows |-> <<>>, len |-> 0]

SomePartition(p) == [kind |-> "partition", partition |-> p]

\* deserialize_partition: decompress with the SSTable's compression, then
\* walk the length-prefixed fields with read_exact
deserialize_partition(block, compression) ==
    LET raw_len == block.len - (IF block.compression = "None" THEN 0 ELSE 4)
        static_size == u32_from_le_bytes(block.static_prefix)
        row_count == u32_from_le_bytes(block.count_prefix)
        RowEnd(i) == 4 + static_size + 4
                     + SumSeq([j \in 1..i |-> 4 + u32_from_le_bytes(block.rows[j].prefix)])
    IN IF block.compression # compression THEN Err
       ELSE IF 4 + static_size > raw_len \/ static_size # StaticLen THEN Err
       ELSE IF 4 + static_size + 4 > raw_len THEN Err
       ELSE IF row_count > Len(block.rows) THEN Err
       ELSE IF \E i \in 1..row_count :
                   \/ RowEnd(i) > raw_len
                   \/ u32_from_le_bytes(block.rows[i].prefix)
                          # RowBincodeSize(block.rows[i].row)
            THEN Err
       ELSE SomePartition(
                [rows |-> [ck \in {block.rows[i].row.clustering_key : i \in 1..row_count}
                              |-> (CHOOSE r \in {block.rows[i].row : i \in 1..row_count} :
                                       r.clustering_key = ck)],
                 static_columns |-> block.static_columns])

\* A file is the sequence of the writes made to it; a later write covers an
\* earlier one where they overlap.
FileWrite(at, len, kind, u32, block) ==
    [at |-> at, len |-> len, kind |-> kind, u32 |-> u32, block |-> block]

FileLen(file) ==
    LET ends == {file[i].at + file[i].len : i \in 1..Len(file)}
    IN IF ends = {} THEN 0 ELSE CHOOSE e \in ends : \A x \in ends : x <= e

\* the write that the byte at position p comes from (0: none)
ByteSource(file, p) ==
    LET covering == {i \in 1..Len(file) : file[i].at <= p /\ p < file[i].at + file[i].len}
    IN IF covering = {} THEN 0 ELSE CHOOSE i \in covering : \A j \in covering : j <= i

\* seek(offset); read_exact(4 bytes); read_exact(partition_size bytes)
ReadBlockAt(file, offset) ==
    IF offset + 4 > FileLen(file) THEN Err
    ELSE LET w == ByteSource(file, offset)
             clean == /\ w # 0
                      /\ file[w].kind = "u32"
                      /\ file[w].at = offset
                      /\ \A p \in offset..(offset + 3) : ByteSource(file, p) = w
         IN IF ~clean THEN Err
            ELSE LET partition_size == u32_from_le_bytes(file[w].u32)
                     d == ByteSource(file, offset + 4)
                 IN IF offset + 4 + partition_size > FileLen(file) THEN Err
                    ELSE IF /\ d # 0
                            /\ file[d].kind = "block"
                            /\ file[d].at = offset + 4
                            /\ file[d].len = partition_size
                            /\ \A p \in (offset + 4)..(offset + 3 + partition_size) :
                                   ByteSource(file, p) = d
                         THEN [kind |-> "block", block |-> file[d].block]
                         ELSE Err

\* the partition loop of create_from_memtable: state after the first n
\* partitions of the sorted enumeration
RECURSIVE WritePartitions(_, _, _, _)
WritePartitions(memtable, keys, n, compression) ==
    IF n = 0
    THEN [bloom_filter |-> BloomFilterNew(partition_count(memtable)),
          partition_index |-> EmptyMap,
          current_offset |-> HeaderSize,
          file |-> <<>>,
          min_timestamp |-> I64Max,
          max_timestamp |-> I64Min,
          total_size |-> 0]
    ELSE LET st == WritePartitions(memtable, keys, n - 1, compression)
             partition_key == keys[n]
             partition == memtable.partitions[partition_key]
             partition_data == serialize_partition(partition, compression)
             partition_size == 4 + partition_data.len
             pos == FileLen(st.file)
             stamps == {partition.rows[ck].timestamp : ck \in DOMAIN partition.rows}
         IN [bloom_filter |-> add(st.bloom_filter, partition_key),
             partition_index |-> Upsert(st.partition_index, partition_key, st.current_offset),
             current_offset |-> st.current_offset + partition_size,
             file |-> st.file
                      \o <<FileWrite(pos, 4, "u32", u32_be_bytes(partition_data.len), NoBlock),
                           FileWrite(pos + 4, partition_data.len, "block",
                                     <<0, 0, 0, 0>>, partition_data)>>,
             min_timestamp |-> Min(st.min_timestamp,
                                   CHOOSE t \in stamps : \A u \in stamps : t <= u),
             max_timestamp |-> Max(st.max_timestamp,
                                   CHOOSE t \in stamps : \A u \in stamps : t >= u),
             total_size |-> st.total_size + partition_size]

\* every SampleRate-th entry of the full index, starting with the first
build_summary_index(full_index) ==
    LET keys == SetToSortedSeq(DOMAIN full_index)
        sampled == {keys[i] : i \in {j \in 1..Len(keys) : (j - 1) % SampleRate = 0}}
    IN [k \in sampled |-> full_index[k]]

\* bincode length of a BTreeMap<PartitionKey, u64>
IndexLen(index) == 8 + (16 + 8) * Cardinality(DOMAIN index)

\* SSTable::create_from_memtable, successful: [sstable, file]
create_from_memtable(memtable, sstable_id, compression) ==
    LET keys == get_all_partitions(memtable)
        st == WritePartitions(memtable, keys, Len(keys), compression)
        summary_index == build_summary_index(st.partition_index)
        p1 == FileLen(st.file)
        p2 == p1 + BloomLen
        p3 == p2 + IndexLen(st.partition_index)
    IN [sstable |-> [id |-> sstable_id,
                     bloom_filter |-> st.bloom_filter,
                     partition_index |-> st.partition_index,
                     summary_index |-> summary_index,
                     min_timestamp |-> st.min_timestamp,
                     max_timestamp |-> st.max_timestamp,
                     compression |-> compression,
                     size_bytes |-> st.total_size],
        file |-> st.file
                 \o <<FileWrite(p1, BloomLen, "bloom", <<0, 0, 0, 0>>, NoBlock),
                      FileWrite(p2, IndexLen(st.partition_index), "index",
                                <<0, 0, 0, 0>>, NoBlock),
                      FileWrite(p3, IndexLen(summary_index), "summary",
                                <<0, 0, 0, 0>>, NoBlock),
                      FileWrite(0, HeaderSize, "header", <<0, 0, 0, 0>>, NoBlock)>>]

\* SSTable::read_partition on the data files of the disk
read_partition(sstable, files, partition_key) ==
    IF ~might_contain(sstable.bloom_filter, partition_key) THEN None
    ELSE IF partition_key \notin DOMAIN sstable.partition_index THEN None
    ELSE IF sstable.id \notin DOMAIN files THEN Err
    ELSE LET b == ReadBlockAt(files[sstable.id], sstable.partition_index[partition_key])
         IN IF b.kind = "err" THEN Err
            ELSE deserialize_partition(b.block, sstable.compression)

\* ------------------------------------------- compaction.rs, LevelManager
L0Threshold == 4        \* get_threshold_for_level(0)
LevelBase == 10         \* 10.0 * level_size_multiplier.powi(level)

\* b to the power e
RECURSIVE powi(_, _)
powi(b, e) == IF e = 0 THEN 1 ELSE b * powi(b, e - 1)

\* LevelManager::new: max_levels empty levels; levels[k + 1] here is
\* levels[k] of the code
LevelManagerNew(max_levels, level_size_multiplier) ==
    [levels |-> [k \in 1..max_levels |-> <<>>],
     max_levels |-> max_levels,
     level_size_multiplier |-> level_size_multiplier]

\* a CoreDB holds no LevelManager
NoLevelManager == LevelManagerNew(0, 1)

add_sstable(lm, sstable, level) ==
    IF level < lm.max_levels
    THEN [lm EXCEPT !.levels[level + 1] = Append(@, sstable)]
    ELSE lm

\* get_threshold_for_level with the L0 limit of 3
get_threshold_for_level_l0_three(lm, level) ==
    IF level = 0 THEN 3 ELSE LevelBase * powi(lm.level_size_multiplier, level)

get_threshold_for_level(lm, level) ==
    IF level = 0 THEN L0Threshold ELSE LevelBase * powi(lm.level_size_multiplier, level)

\* needs_compaction: the first level in index order whose length has reached
\* its threshold, with a clone of that level
needs_compaction(lm) ==
    LET due == {k \in 0..(lm.max_levels - 1) :
                   Len(lm.levels[k + 1]) >= get_threshold_for_level(lm, k)}
    IN IF due = {} THEN [kind |-> "none"]
       ELSE LET level == CHOOSE k \in due : \A j \in due : k <= j
            IN [kind |-> "some", level |-> level, sstables |-> lm.levels[level + 1]]

\* update_after_compaction for level < max_levels: retain the tables that
\* are not among the inputs; push the output to level + 1 if that level exists
update_after_compaction(lm, level, input_sstables, output_sstable) ==
    LET Kept(sstable) == \A i \in 1..Len(input_sstables) : input_sstables[i] # sstable
        retained == [lm EXCEPT !.levels[level + 1] = SelectSeq(@, Kept)]
    IN IF level + 1 < lm.max_levels
       THEN [retained EXCEPT !.levels[level + 2] = Append(@, output_sstable)]
       ELSE retained

\* ----------------------------------------------------------- database.rs
VARIABLES
    config,         \* DatabaseConfig
    keyspaces,      \* CoreDB.keyspaces: name -> Keyspace { tables: name -> Table }
    commit_log,     \* CoreDB.commit_log
    wal_files,      \* commitlog directory: segment id -> records on disk
    data_files,     \* data directory: SSTable id -> file
    task_queue,     \* CompactionManager's task channel
    pc,             \* per client: where its current call stands
    call,           \* per client: the arguments of its current call
    read_guards,    \* per client: read guards it holds on CoreDB.keyspaces
    acked,          \* history: entries of the insert_row calls that returned Ok
    dropped,        \* history: a re-creation discarded a table that held data
    restarts,       \* engines started on the directories after the first
    next_uuid,      \* SSTable ids handed out so far (Uuid::new_v4 never repeats)
    last_return,    \* history: the call that returned in the last step, if any
    io_failures,    \* disk failures so far
    wal_history,    \* history: the operations made on the CommitLog, in order
    shared_memtable,\* a Memtable shared by threads that call put
    put_calls,      \* per thread: where its Memtable::put stands
    level_manager,  \* a LevelManager
    background_tasks\* the two tasks spawned by start_background_tasks

\* the variables of the CommitLog and Memtable exercised on their own
unit_vars == <<wal_history, shared_memtable, put_calls, level_manager,
               background_tasks>>

vars == <<config, keyspaces, commit_log, wal_files, data_files, task_queue, pc,
          call, read_guards, acked, dropped, restarts, next_uuid, io_failures,
          last_return, unit_vars>>

TableNew == [memtables |-> <<>>, sstables |-> <<>>, current_memtable |-> MemtableNew]

KeyspaceNew == [tables |-> EmptyMap]

\* flush: the table a pending flush_memtable is for; todo: the tables the
\* caller's loop has still to visit
\* history of the call: appended, its record has reached the segment file;
\* put_done, its row has been put into a memtable
NoCall == [op |-> "none", keyspace |-> "", table |-> "", row |-> NoRow,
           flush |-> <<"", "">>, todo |-> {}, appended |-> FALSE, put_done |-> FALSE]

\* (keyspace, table) pairs of the tables that exist
AllTables ==
    {kt \in (DOMAIN keyspaces) \X TableNames : kt[2] \in DOMAIN keyspaces[kt[1]].tables}

TableOf(kt) == keyspaces[kt[1]].tables[kt[2]]

TableExists(ks, t) == ks \in DOMAIN keyspaces /\ t \in DOMAIN keyspaces[ks].tables

TotalReadGuards == SumOver(Clients, read_guards)

\* tokio's RwLock is fair: while a task waits for the write lock no further
\* read guard is handed out
WriterWaiting == \E c \in Clients : pc[c] \in {"flush_wait", "keyspaces_wait"}

ThresholdBytes == config.memtable_flush_threshold_mb * 1024 * 1024

\* records written so far: those in the segment files, those in the
\* BufWriter, and those of the segment files removed since
WalCount ==
    SumOver(DOMAIN wal_files, [id \in DOMAIN wal_files |-> Len(wal_files[id])])
    + Len(commit_log.buffer)
    + SumSeq([i \in 1..Len(wal_history) |->
                 SumOver(DOMAIN wal_history[i].removed,
                         [id \in DOMAIN wal_history[i].removed |->
                              Len(wal_history[i].removed[id])])])

NoReturn == [call |-> NoCall, result |-> "none"]

\* start_background_tasks: the compaction loop and the TTL sweep are spawned
\* by CoreDB::new
BackgroundTasksNew == [compaction_loop |-> "running", ttl_sweep |-> "running"]

\* a thread that is not inside Memtable::put
NoPut == [pc |-> "idle", row |-> NoRow, existing |-> None, done |-> 0]

Return(c, r) ==
    /\ last_return' = [call |-> call[c], result |-> r]
    /\ pc' = [pc EXCEPT ![c] = "idle"]
    /\ call' = [call EXCEPT ![c] = NoCall]
    /\ read_guards' = [read_guards EXCEPT ![c] = 0]

\* the state CoreDB::new builds: the two system keyspaces, a fresh CommitLog
Init ==
    /\ config \in [memtable_flush_threshold_mb : ThresholdsMb]
    /\ keyspaces = [k \in SystemKeyspaces |-> KeyspaceNew]
    /\ commit_log = CommitLogNew
    /\ wal_files = OpenSegment(EmptyMap, 0)
    /\ data_files = EmptyMap
    /\ task_queue = <<>>
    /\ pc = [c \in Clients |-> "idle"]
    /\ call = [c \in Clients |-> NoCall]
    /\ read_guards = [c \in Clients |-> 0]
    /\ acked = {}
    /\ dropped = FALSE
    /\ restarts = 0
    /\ next_uuid = 0
    /\ io_failures = 0
    /\ last_return = NoReturn
    /\ wal_history = <<>>
    /\ shared_memtable = MemtableNew
    /\ put_calls = [c \in Clients |-> NoPut]
    /\ level_manager = NoLevelManager
    /\ background_tasks = BackgroundTasksNew

\* create_keyspace up to keyspaces.write().await
create_keyspace_call(c, name) ==
    /\ pc[c] = "idle"
    /\ pc' = [pc EXCEPT ![c] = "keyspaces_wait"]
    /\ call' = [call EXCEPT ![c] = [NoCall EXCEPT !.op = "create_keyspace",
                                                  !.keyspace = name]]
    /\ last_return' = NoReturn
    /\ UNCHANGED <<config, keyspaces, commit_log, wal_files, data_files, task_queue,
                   read_guards, acked, dropped, restarts, next_uuid, io_failures>>
    /\ UNCHANGED unit_vars

\* create_keyspace once the write lock is granted
create_keyspace(c) ==
    /\ pc[c] = "keyspaces_wait"
    /\ TotalReadGuards = 0
    /\ keyspaces' = Upsert(keyspaces, call[c].keyspace, KeyspaceNew)
    /\ dropped' = (dropped \/ \E kt \in AllTables :
                                  /\ kt[1] = call[c].keyspace
                                  /\ TableOf(kt) # TableNew)
    /\ Return(c, "ok")
    /\ UNCHANGED <<config, commit_log, wal_files, data_files, task_queue, acked,
                   restarts, next_uuid, io_failures>>
    /\ UNCHANGED unit_vars

create_table(c, ks, t) ==
    /\ pc[c] = "idle"
    /\ ~WriterWaiting
    /\ LET this == [NoCall EXCEPT !.op = "create_table", !.keyspace = ks, !.table = t]
       IN IF ks \in DOMAIN keyspaces
          THEN /\ keyspaces' = [keyspaces EXCEPT ![ks].tables = Upsert(@, t, TableNew)]
               /\ dropped' = (dropped \/ (TableExists(ks, t)
                                          /\ TableOf(<<ks, t>>) # TableNew))
               /\ last_return' = [call |-> this, result |-> "ok"]
          ELSE /\ last_return' = [call |-> this, result |-> "keyspace_not_found"]
               /\ UNCHANGED <<keyspaces, dropped>>
    /\ UNCHANGED <<config, commit_log, wal_files, data_files, task_queue, pc, call,
                   read_guards, acked, restarts, next_uuid, io_failures>>
    /\ UNCHANGED unit_vars

\* insert_row up to and including commit_log.write().await.append(..).await?
insert_row_append(c, ks, t, row) ==
    /\ pc[c] = "idle"
    /\ WalCount < MaxWal
    /\ LET commit_entry == CommitLogEntry(ks, t, row)
           this == [NoCall EXCEPT !.op = "insert_row", !.keyspace = ks,
                                  !.table = t, !.row = row]
       IN \/ /\ LET r == append(commit_log, wal_files, commit_entry)
                IN /\ commit_log' = r.log
                   /\ wal_files' = r.files
             /\ pc' = [pc EXCEPT ![c] = "put"]
             /\ call' = [call EXCEPT ![c] = [this EXCEPT !.appended = TRUE]]
             /\ last_return' = NoReturn
             /\ UNCHANGED io_failures
          \/ /\ io_failures < MaxIoFailures
             /\ io_failures' = io_failures + 1
             /\ \/ UNCHANGED commit_log
                \/ commit_log' = append_flush_failed(commit_log, commit_entry)
             /\ last_return' = [call |-> this, result |-> "io_error"]
             /\ UNCHANGED <<wal_files, pc, call>>
    /\ UNCHANGED <<config, keyspaces, data_files, task_queue, read_guards, acked,
                   dropped, restarts, next_uuid>>
    /\ UNCHANGED unit_vars

\* insert_row: keyspaces.read().await, the lookups and current_memtable.put
insert_row_put(c) ==
    /\ pc[c] = "put"
    /\ ~WriterWaiting
    /\ LET ks == call[c].keyspace
           t == call[c].table
       IN IF ks \in DOMAIN keyspaces
          THEN IF t \in DOMAIN keyspaces[ks].tables
               THEN /\ keyspaces' = [keyspaces EXCEPT
                            ![ks].tables[t].current_memtable = put(@, call[c].row)]
                    /\ pc' = [pc EXCEPT ![c] = "check"]
                    /\ call' = [call EXCEPT ![c].put_done = TRUE]
                    /\ read_guards' = [read_guards EXCEPT ![c] = 1]
                    /\ last_return' = NoReturn
               ELSE /\ Return(c, "table_not_found")
                    /\ UNCHANGED keyspaces
          ELSE /\ Return(c, "keyspace_not_found")
               /\ UNCHANGED keyspaces
    /\ UNCHANGED <<config, commit_log, wal_files, data_files, task_queue, acked,
                   dropped, restarts, next_uuid, io_failures>>
    /\ UNCHANGED unit_vars

\* check_memtable_flush as called by insert_row: a second read guard, then
\* the loop over the tables up to the first flush_memtable(..).await, or to
\* the end and the return of insert_row
check_memtable_flush(c) ==
    /\ pc[c] \in {"check", "check_resume"}
    /\ pc[c] = "check" => ~WriterWaiting
    /\ LET visit == IF pc[c] = "check" THEN AllTables ELSE call[c].todo \cap AllTables
           over == {kt \in visit :
                        TableOf(kt).current_memtable.size_bytes > ThresholdBytes}
       IN IF over = {}
          THEN /\ Return(c, "ok")
               /\ acked' = acked \cup {CommitLogEntry(call[c].keyspace, call[c].table,
                                                      call[c].row)}
          ELSE /\ \E kt \in over :
                     call' = [call EXCEPT ![c].flush = kt, ![c].todo = visit \ {kt}]
               /\ pc' = [pc EXCEPT ![c] = "flush_wait"]
               /\ read_guards' = [read_guards EXCEPT ![c] = 2]
               /\ last_return' = NoReturn
               /\ UNCHANGED acked
    /\ UNCHANGED <<config, keyspaces, commit_log, wal_files, data_files, task_queue,
                   dropped, restarts, next_uuid, io_failures>>
    /\ UNCHANGED unit_vars

\* flush_memtable entered by a caller that holds no guard (the function is
\* private: a test of the module, or code doing the same through the public
\* fields), up to keyspaces.write().await
flush_memtable_call(c, ks, t) ==
    /\ pc[c] = "idle"
    /\ TableExists(ks, t)
    /\ pc' = [pc EXCEPT ![c] = "flush_wait"]
    /\ call' = [call EXCEPT ![c] = [NoCall EXCEPT !.op = "flush_memtable",
                                                  !.flush = <<ks, t>>]]
    /\ last_return' = NoReturn
    /\ UNCHANGED <<config, keyspaces, commit_log, wal_files, data_files, task_queue,
                   read_guards, acked, dropped, restarts, next_uuid, io_failures>>
    /\ UNCHANGED unit_vars

\* where a call goes on after its flush_memtable(..).await? returned r
AfterFlush(c, r) ==
    IF call[c].op = "flush_memtable" \/ r # "ok"
    THEN /\ Return(c, r)
    ELSE /\ pc' = [pc EXCEPT ![c] = IF call[c].op = "insert_row"
                                    THEN "check_resume" ELSE "shutdown_resume"]
         /\ last_return' = NoReturn
         /\ UNCHANGED <<call, read_guards>>

\* flush_memtable once the write lock on keyspaces is granted
flush_memtable(c) ==
    /\ pc[c] = "flush_wait"
    /\ TotalReadGuards = 0
    /\ LET ks == call[c].flush[1]
           t == call[c].flush[2]
       IN IF ~TableExists(ks, t)
          THEN /\ AfterFlush(c, "ok")
               /\ UNCHANGED <<keyspaces, data_files, task_queue, next_uuid, io_failures>>
          ELSE LET tbl == keyspaces[ks].tables[t]
                   old_memtable == tbl.current_memtable
                   swapped == [tbl EXCEPT !.current_memtable = MemtableNew]
               IN \/ \* create_dir_all or create_from_memtable fails
                     /\ io_failures < MaxIoFailures
                     /\ io_failures' = io_failures + 1
                     /\ keyspaces' = [keyspaces EXCEPT ![ks].tables[t] = swapped]
                     /\ AfterFlush(c, "io_error")
                     /\ UNCHANGED <<data_files, task_queue, next_uuid>>
                  \/ /\ next_uuid < MaxSSTables
                     /\ next_uuid' = next_uuid + 1
                     /\ LET r == create_from_memtable(old_memtable, next_uuid + 1, "LZ4")
                        IN /\ keyspaces' = [keyspaces EXCEPT ![ks].tables[t] =
                                   [swapped EXCEPT !.sstables = Append(@, r.sstable)]]
                           /\ data_files' = Upsert(data_files, r.sstable.id, r.file)
                     \* schedule_compaction
                     /\ task_queue' = Append(task_queue,
                             [keyspace |-> ks, table |-> t, input_sstables |-> <<>>])
                     /\ AfterFlush(c, "ok")
                     /\ UNCHANGED io_failures
    /\ UNCHANGED <<config, commit_log, wal_files, acked, dropped, restarts>>
    /\ UNCHANGED unit_vars

\* shutdown: keyspaces.read().await, then the loop over the tables up to the
\* next flush_memtable(..).await, or to the end and the return
shutdown(c) ==
    /\ pc[c] \in {"idle", "shutdown_resume"}
    /\ pc[c] = "idle" => ~WriterWaiting
    /\ LET visit == IF pc[c] = "idle" THEN AllTables ELSE call[c].todo \cap AllTables
       IN IF visit = {}
          THEN /\ last_return' = [call |-> [NoCall EXCEPT !.op = "shutdown"],
                                  result |-> "ok"]
               /\ pc' = [pc EXCEPT ![c] = "idle"]
               /\ call' = [call EXCEPT ![c] = NoCall]
               /\ read_guards' = [read_guards EXCEPT ![c] = 0]
          ELSE /\ \E kt \in visit :
                     call' = [call EXCEPT ![c] = [NoCall EXCEPT !.op = "shutdown",
                                                                !.flush = kt,
                                                                !.todo = visit \ {kt}]]
               /\ pc' = [pc EXCEPT ![c] = "flush_wait"]
               /\ read_guards' = [read_guards EXCEPT ![c] = 1]
               /\ last_return' = NoReturn
    /\ UNCHANGED <<config, keyspaces, commit_log, wal_files, data_files, task_queue,
                   acked, dropped, restarts, next_uuid, io_failures>>
    /\ UNCHANGED unit_vars

\* The process ends and CoreDB::new runs again on the same directories: the
\* files stay, everything in memory is built anew.
Restart ==
    /\ restarts < MaxRestarts
    /\ restarts' = restarts + 1
    /\ keyspaces' = [k \in SystemKeyspaces |-> KeyspaceNew]
    /\ commit_log' = CommitLogNew
    /\ wal_files' = OpenSegment(wal_files, 0)
    /\ task_queue' = <<>>
    /\ pc' = [c \in Clients |-> "idle"]
    /\ call' = [c \in Clients |-> NoCall]
    /\ read_guards' = [c \in Clients |-> 0]
    /\ last_return' = NoReturn
    /\ UNCHANGED <<config, data_files, acked, dropped, next_uuid, io_failures>>
    /\ UNCHANGED unit_vars

\* get_row: the current memtable first, then the SSTables in list order;
\* the first SSTable that yields the partition ends the search with that
\* partition, an SSTable read error ends it with the error
RECURSIVE SearchSSTables(_, _, _)
SearchSSTables(sstables, files, partition_key) ==
    IF sstables = <<>> THEN None
    ELSE LET r == read_partition(Head(sstables), files, partition_key)
         IN IF r.kind = "none"
            THEN SearchSSTables(Tail(sstables), files, partition_key)
            ELSE r

GetRowIn(kss, files, ks, t, partition_key, clustering_key) ==
    IF ~(ks \in DOMAIN kss /\ t \in DOMAIN kss[ks].tables) THEN None
    ELSE LET tbl == kss[ks].tables[t]
             hit == get(tbl.current_memtable, partition_key, clustering_key)
         IN IF hit.kind = "row" THEN hit
            ELSE SearchSSTables(tbl.sstables, files, partition_key)

get_row(ks, t, partition_key, clustering_key) ==
    GetRowIn(keyspaces, data_files, ks, t, partition_key, clustering_key)

Next ==
    \/ \E c \in Admins, name \in KeyspaceNames : create_keyspace_call(c, name)
    \/ \E c \in Clients : create_keyspace(c)
    \/ \E c \in Admins, ks \in KeyspaceNames, t \in TableNames : create_table(c, ks, t)
    \/ \E c \in Clients, ks \in KeyspaceNames, t \in TableNames, row \in Rows :
           insert_row_append(c, ks, t, row)
    \/ \E c \in Clients : insert_row_put(c)
    \/ \E c \in Clients : check_memtable_flush(c)
    \/ \E c \in Admins, ks \in KeyspaceNames, t \in TableNames :
           flush_memtable_call(c, ks, t)
    \/ \E c \in Clients : flush_memtable(c)
    \/ \E c \in Admins : shutdown(c)
    \/ Restart

Spec == Init /\ [][Next]_vars

\* the step that takes the call of client c on from where it waits
Continue(c) ==
    \/ create_keyspace(c)
    \/ insert_row_put(c)
    \/ check_memtable_flush(c)
    \/ flush_memtable(c)

\* ------------------------------------------------- wal.rs, on its own
\* The CommitLog driven directly through its public operations, as the
\* tests of wal.rs do: append, cleanup_old_segments, CommitLog::new on the
\* directory of an earlier instance, and a process that dies inside append.
coordinator_vars == <<config, keyspaces, data_files, task_queue, pc, call,
                      read_guards, acked, dropped, restarts, next_uuid,
                      io_failures, last_return, level_manager, background_tasks>>

\* segment_size_limit as the caller sets it (test_commit_log_segment_rotation
\* assigns the field): smaller than one record, one record, two records, and
\* the default
SegmentSizeLimits == {64, 101, 202, SegmentSizeLimit}

\* the entries handed to append: two that differ in the partition key
WalInputs ==
    {CommitLogEntry(ks, t, row) :
        <<ks, t, row>> \in {x \in KeyspaceNames \X TableNames \X Rows :
                                /\ x[3].partition_key \in {1, MaxPK}
                                /\ x[3].clustering_key = NoneCK
                                /\ x[3].timestamp = 1
                                /\ x[3].cells.value.timestamp = 1}}

\* the files of before that are not among those of after
RemovedFiles(before, after) ==
    [id \in (DOMAIN before) \ (DOMAIN after) |-> before[id]]

WalOp(op, entry, segment, keep, removed) ==
    [op |-> op, entry |-> entry, segment |-> segment, keep |-> keep,
     removed |-> removed]

NoEntry == CommitLogEntry("", "", NoRow)

WalInit ==
    /\ config \in [memtable_flush_threshold_mb : ThresholdsMb]
    /\ keyspaces = [k \in SystemKeyspaces |-> KeyspaceNew]
    /\ \E limit \in SegmentSizeLimits :
           commit_log = [CommitLogNew EXCEPT !.segment_size_limit = limit]
    /\ wal_files = OpenSegment(EmptyMap, 0)
    /\ data_files = EmptyMap
    /\ task_queue = <<>>
    /\ pc = [c \in Clients |-> "idle"]
    /\ call = [c \in Clients |-> NoCall]
    /\ read_guards = [c \in Clients |-> 0]
    /\ acked = {}
    /\ dropped = FALSE
    /\ restarts = 0
    /\ next_uuid = 0
    /\ io_failures = 0
    /\ last_return = NoReturn
    /\ wal_history = <<>>
    /\ shared_memtable = MemtableNew
    /\ put_calls = [c \in Clients |-> NoPut]
    /\ level_manager = NoLevelManager
    /\ background_tasks = BackgroundTasksNew

\* CommitLog::append returning Ok
wal_append(entry) ==
    /\ Len(wal_history) < MaxWalOps
    /\ LET r == append(commit_log, wal_files, entry)
       IN /\ commit_log' = r.log
          /\ wal_files' = r.files
          /\ wal_history' = Append(wal_history,
                                   WalOp("append", entry, r.log.segment_id, 0, EmptyMap))
    /\ UNCHANGED <<coordinator_vars, shared_memtable, put_calls>>

\* CommitLog::cleanup_old_segments returning Ok
wal_cleanup(keep_segments) ==
    /\ Len(wal_history) < MaxWalOps
    /\ wal_files' = cleanup_old_segments(commit_log, wal_files, keep_segments)
    /\ wal_history' = Append(wal_history,
                             WalOp("cleanup", NoEntry, commit_log.segment_id,
                                   keep_segments,
                                   RemovedFiles(wal_files, wal_files')))
    /\ UNCHANGED <<coordinator_vars, commit_log, shared_memtable, put_calls>>

\* the instance is dropped and CommitLog::new runs on the same directory
\* (the caller sets segment_size_limit as before)
wal_new ==
    /\ Len(wal_history) < MaxWalOps
    /\ commit_log' = [CommitLogNew EXCEPT
                          !.segment_size_limit = commit_log.segment_size_limit]
    /\ wal_files' = OpenSegment(wal_files, 0)
    /\ wal_history' = Append(wal_history, WalOp("new", NoEntry, 0, 0, EmptyMap))
    /\ UNCHANGED <<coordinator_vars, shared_memtable, put_calls>>

\* the process dies inside append, after rotate_segment where one was due
\* and with only a part of the record in the file; CommitLog::new then runs
\* on the directory
wal_crash(entry, cut) ==
    /\ Len(wal_history) < MaxWalOps
    /\ \A i \in 1..Len(wal_history) : wal_history[i].op # "crash"
    /\ LET r == IF commit_log.current_segment_size + EntrySize(entry) + 4
                       > commit_log.segment_size_limit
                THEN rotate_segment(commit_log, wal_files)
                ELSE [log |-> commit_log, files |-> wal_files]
           files == [r.files EXCEPT ![r.log.segment_id] =
                         Append(@, TruncatedRecord(entry, cut))]
       IN /\ wal_files' = OpenSegment(files, 0)
          /\ wal_history' = Append(wal_history,
                                   WalOp("crash", entry, r.log.segment_id, 0, EmptyMap))
    /\ commit_log' = [CommitLogNew EXCEPT
                          !.segment_size_limit = commit_log.segment_size_limit]
    /\ UNCHANGED <<coordinator_vars, shared_memtable, put_calls>>

WalNext ==
    \/ \E entry \in WalInputs : wal_append(entry)
    \/ \E keep_segments \in 0..MaxKeep : wal_cleanup(keep_segments)
    \/ wal_new
    \/ \E entry \in WalInputs, cut \in {"prefix", "body"} : wal_crash(entry, cut)

WalSpec == WalInit /\ [][WalNext]_vars

\* ------------------------------------- database.rs, one caller of the API
\* One caller that uses the whole public surface of CoreDB: rows whose cell
\* carries the tombstone flag, DELETE through execute_cql, and the CommitLog
\* behind the public field commit_log.
\* segment_size_limit scaled to one record, so that the log rotates within
\* the inserts of a run, and the default
CoordinatorSegmentLimits == {101, SegmentSizeLimit}

ApiInit ==
    /\ config \in [memtable_flush_threshold_mb : ThresholdsMb]
    /\ keyspaces = [k \in SystemKeyspaces |-> KeyspaceNew]
    /\ \E limit \in CoordinatorSegmentLimits :
           commit_log = [CommitLogNew EXCEPT !.segment_size_limit = limit]
    /\ wal_files = OpenSegment(EmptyMap, 0)
    /\ data_files = EmptyMap
    /\ task_queue = <<>>
    /\ pc = [c \in Clients |-> "idle"]
    /\ call = [c \in Clients |-> NoCall]
    /\ read_guards = [c \in Clients |-> 0]
    /\ acked = {}
    /\ dropped = FALSE
    /\ restarts = 0
    /\ next_uuid = 0
    /\ io_failures = 0
    /\ last_return = NoReturn
    /\ wal_history = <<>>
    /\ shared_memtable = MemtableNew
    /\ put_calls = [c \in Clients |-> NoPut]
    /\ level_manager = NoLevelManager
    /\ background_tasks = BackgroundTasksNew

\* execute_cql("DELETE FROM ks.t WHERE ..."): CqlParser::parse hands the
\* query to parse_delete, which returns QueryParsingError, and `?` returns it
\* before anything is logged or executed
delete_row(c, ks, t, partition_key, clustering_key) ==
    /\ pc[c] = "idle"
    /\ last_return' =
           [call |-> [NoCall EXCEPT !.op = "delete_row", !.keyspace = ks, !.table = t,
                                    !.row = [NoRow EXCEPT
                                                 !.partition_key = partition_key,
                                                 !.clustering_key = clustering_key]],
            result |-> "query_parsing_error"]
    /\ UNCHANGED <<config, keyspaces, commit_log, wal_files, data_files, task_queue,
                   pc, call, read_guards, acked, dropped, restarts, next_uuid,
                   io_failures>>
    /\ UNCHANGED unit_vars

\* db.commit_log.read().await.cleanup_old_segments(keep_segments); the
\* history keeps the calls that removed a file
reclaim_segments(c, keep_segments) ==
    /\ pc[c] = "idle"
    /\ wal_files' = cleanup_old_segments(commit_log, wal_files, keep_segments)
    /\ wal_history' = IF wal_files' = wal_files THEN wal_history
                       ELSE Append(wal_history,
                                   WalOp("cleanup", NoEntry, commit_log.segment_id,
                                         keep_segments,
                                         RemovedFiles(wal_files, wal_files')))
    /\ last_return' = [call |-> [NoCall EXCEPT !.op = "cleanup_old_segments"],
                       result |-> "ok"]
    /\ UNCHANGED <<config, keyspaces, commit_log, data_files, task_queue, pc, call,
                   read_guards, acked, dropped, restarts, next_uuid, io_failures,
                   shared_memtable, put_calls, level_manager,
                   background_tasks>>

ApiNext ==
    \/ \E c \in Admins, name \in KeyspaceNames : create_keyspace_call(c, name)
    \/ \E c \in Admins : create_keyspace(c)
    \/ \E c \in Admins, ks \in KeyspaceNames, t \in TableNames : create_table(c, ks, t)
    \/ \E c \in Admins, ks \in KeyspaceNames, t \in TableNames,
          row \in Rows \cup TombstoneRows :
           insert_row_append(c, ks, t, row)
    \/ \E c \in Admins : insert_row_put(c)
    \/ \E c \in Admins : check_memtable_flush(c)
    \/ \E c \in Admins, ks \in KeyspaceNames, t \in TableNames :
           flush_memtable_call(c, ks, t)
    \/ \E c \in Admins : flush_memtable(c)
    \/ \E c \in Admins, ks \in KeyspaceNames, t \in TableNames,
          partition_key \in PartitionKeys, clustering_key \in ClusteringKeys :
           delete_row(c, ks, t, partition_key, clustering_key)
    \/ \E c \in Admins, keep_segments \in 0..MaxKeep : reclaim_segments(c, keep_segments)

ApiSpec == ApiInit /\ [][ApiNext]_vars

\* ------------------------------------------------ memtable.rs, on its own
\* Threads that share one Memtable and call put on it, as the callers of
\* insert_row do under their read guards.  put takes no lock: each access to
\* the SkipMaps and to the AtomicU64 is a step of its own.
engine_vars == <<coordinator_vars, commit_log, wal_files, wal_history>>

\* put up to partitions.get_or_insert_with(partition_key, Partition::new)
put_get_or_insert(c, row) ==
    /\ put_calls[c].pc = "idle"
    /\ put_calls[c].done < MaxPuts
    /\ shared_memtable' =
           IF row.partition_key \in DOMAIN shared_memtable.partitions
           THEN shared_memtable
           ELSE [shared_memtable EXCEPT
                     !.partitions = Upsert(@, row.partition_key, PartitionNew)]
    /\ put_calls' = [put_calls EXCEPT ![c] = [@ EXCEPT !.pc = "get", !.row = row]]
    /\ UNCHANGED engine_vars

\* partition.value().rows.get(&clustering_key)
put_get_existing(c) ==
    /\ put_calls[c].pc = "get"
    /\ put_calls' = [put_calls EXCEPT ![c] =
           [@ EXCEPT !.pc = "fetch_add",
                     !.existing = get(shared_memtable, put_calls[c].row.partition_key,
                                      put_calls[c].row.clustering_key)]]
    /\ UNCHANGED <<engine_vars, shared_memtable>>

\* size_bytes.fetch_add of the delta to the row seen, or of row_size
put_fetch_add(c) ==
    /\ put_calls[c].pc = "fetch_add"
    /\ LET row_size == calculate_row_size(put_calls[c].row)
           existing == put_calls[c].existing
       IN shared_memtable' =
              [shared_memtable EXCEPT !.size_bytes =
                   IF existing.kind = "row"
                   THEN WrappingAdd(@, row_size - calculate_row_size(existing.row))
                   ELSE WrappingAdd(@, row_size)]
    /\ put_calls' = [put_calls EXCEPT ![c].pc = "insert"]
    /\ UNCHANGED engine_vars

\* partition.value().rows.insert(clustering_key, row) and the return
put_insert(c) ==
    /\ put_calls[c].pc = "insert"
    /\ LET row == put_calls[c].row
       IN shared_memtable' =
              [shared_memtable EXCEPT !.partitions[row.partition_key].rows =
                   Upsert(@, row.clustering_key, row)]
    /\ put_calls' = [put_calls EXCEPT ![c] =
                         [NoPut EXCEPT !.done = put_calls[c].done + 1]]
    /\ UNCHANGED engine_vars

MemNext ==
    \/ \E c \in Clients, row \in Rows : put_get_or_insert(c, row)
    \/ \E c \in Clients : put_get_existing(c)
    \/ \E c \in Clients : put_fetch_add(c)
    \/ \E c \in Clients : put_insert(c)

MemSpec == Init /\ [][MemNext]_vars

\* ------------------------------------- memtable.rs, range_scan on its own
\* One thread that puts rows with clustering keys into a Memtable and scans
\* it, as test_memtable_range_scan does.
ScanKeys == 0..MaxScanCK

\* the partitions rows are put into; ScanPartitions and one more are scanned
ScanPartitions == {1, 2}

ScanRows ==
    {[partition_key |-> pk, clustering_key |-> ck,
      cells |-> [value |-> [timestamp |-> 1, is_deleted |-> FALSE]],
      timestamp |-> 1] : pk \in ScanPartitions, ck \in ScanKeys}

memtable_put(row) ==
    /\ shared_memtable' = put(shared_memtable, row)
    /\ last_return' = NoReturn
    /\ UNCHANGED <<config, keyspaces, commit_log, wal_files, data_files, task_queue,
                   pc, call, read_guards, acked, dropped, restarts, next_uuid,
                   io_failures, wal_history, put_calls, level_manager,
                   background_tasks>>

memtable_range_scan(partition_key, start_clustering, end_clustering) ==
    /\ last_return' =
           [call |-> [op |-> "range_scan", partition_key |-> partition_key,
                      start_clustering |-> start_clustering,
                      end_clustering |-> end_clustering],
            result |-> range_scan(shared_memtable, partition_key,
                                  start_clustering, end_clustering)]
    /\ UNCHANGED <<config, keyspaces, commit_log, wal_files, data_files, task_queue,
                   pc, call, read_guards, acked, dropped, restarts, next_uuid,
                   io_failures, unit_vars>>

ScanNext ==
    \/ \E row \in ScanRows : memtable_put(row)
    \/ \E partition_key \in ScanPartitions \cup {3},
          start_clustering \in ScanKeys, end_clustering \in ScanKeys :
           memtable_range_scan(partition_key, start_clustering, end_clustering)

ScanSpec == Init /\ [][ScanNext]_vars

\* ---------------------------------------------------------- compaction.rs
\* min_threshold of the CompactionConfig that CoreDB::new builds is 4; here
\* it is scaled to the SSTables of a run
MinThreshold == 2

\* rows of live cells for the first and the last partition key, written at
\* timestamp 1, whose cell carries the earliest or the latest timestamp
CompactionRows == {r \in AllRows : /\ ~r.cells.value.is_deleted
                                   /\ r.partition_key \in {1, MaxPK}
                                   /\ r.clustering_key = NoneCK
                                   /\ r.timestamp = 1
                                   /\ r.cells.value.timestamp \in {1, MaxTs}}

\* the reads of execute_size_tiered_compaction: read_partition(..).await? on
\* every key of every input's partition_index; what is read goes into
\* merged_data, which nothing uses afterwards
MergeReadFails(input_sstables, files) ==
    \E i \in 1..Len(input_sstables) :
        \E partition_key \in DOMAIN input_sstables[i].partition_index :
            read_partition(input_sstables[i], files, partition_key).kind = "err"

\* the data directory once sstable.delete() has removed the first n inputs
DeleteInputs(files, input_sstables, n) ==
    [id \in (DOMAIN files) \ {input_sstables[i].id : i \in 1..n} |-> files[id]]

\* execute_compaction: both strategies end in execute_size_tiered_compaction.
\* No input: Ok.  Otherwise the reads, then remove_file on the inputs in
\* order, which stops at the first file that is missing or that the disk
\* refuses to remove.  No SSTable is written and no table is looked at.
execute_compaction(task) ==
    LET inputs == task.input_sstables
        Returns(r) == last_return' = [call |-> [op |-> "execute_compaction",
                                               task |-> task],
                                      result |-> r]
    IN IF inputs = <<>>
       THEN /\ Returns("ok")
            /\ UNCHANGED <<data_files, io_failures>>
       ELSE IF MergeReadFails(inputs, data_files)
       THEN /\ Returns("io_error")
            /\ UNCHANGED <<data_files, io_failures>>
       ELSE \E n \in 0..Len(inputs) :
                /\ \A i \in 1..n : inputs[i].id \in DOMAIN data_files
                /\ data_files' = DeleteInputs(data_files, inputs, n)
                /\ \/ /\ n = Len(inputs)
                      /\ Returns("ok")
                      /\ UNCHANGED io_failures
                   \/ /\ n < Len(inputs)
                      /\ inputs[n + 1].id \notin DOMAIN data_files
                      /\ Returns("io_error")
                      /\ UNCHANGED io_failures
                   \/ /\ n < Len(inputs)
                      /\ inputs[n + 1].id \in DOMAIN data_files
                      /\ io_failures < MaxIoFailures
                      /\ io_failures' = io_failures + 1
                      /\ Returns("io_error")

\* run_compaction_loop, one turn: recv a task, execute_compaction, and on
\* Err eprintln and on to the next task
run_compaction_loop ==
    /\ task_queue # <<>>
    /\ execute_compaction(Head(task_queue))
    /\ task_queue' = Tail(task_queue)
    /\ UNCHANGED <<config, keyspaces, commit_log, wal_files, pc, call, read_guards,
                   acked, dropped, restarts, next_uuid>>
    /\ UNCHANGED unit_vars

\* task_sender.send of a task that carries the SSTables of the table, which
\* is what the TODO in schedule_compaction asks for; only code of the module
\* can send it, the sender and CompactionTask's constructor sites being private
send_task_with_inputs(ks, t) ==
    /\ \A c \in Clients : pc[c] = "idle"
    /\ TableExists(ks, t)
    /\ keyspaces[ks].tables[t].sstables # <<>>
    /\ task_queue = <<>>
    /\ task_queue' = Append(task_queue,
           [keyspace |-> ks, table |-> t,
            input_sstables |-> keyspaces[ks].tables[t].sstables])
    /\ last_return' = NoReturn
    /\ UNCHANGED <<config, keyspaces, commit_log, wal_files, data_files, pc, call,
                   read_guards, acked, dropped, restarts, next_uuid, io_failures>>
    /\ UNCHANGED unit_vars

\* bincode::serialize of the bloom filter of an SSTable, as
\* create_from_memtable does for the file, and bincode::deserialize of the
\* bytes
bloom_round_trip(ks, t) ==
    /\ \A c \in Clients : pc[c] = "idle"
    /\ TableExists(ks, t)
    /\ \E i \in 1..Len(keyspaces[ks].tables[t].sstables) :
           LET bf == keyspaces[ks].tables[t].sstables[i].bloom_filter
           IN last_return' = [call |-> [op |-> "bloom_round_trip", filter |-> bf],
                              result |-> DeserializeBloom(SerializeBloom(bf))]
    /\ UNCHANGED <<config, keyspaces, commit_log, wal_files, data_files, task_queue,
                   pc, call, read_guards, acked, dropped, restarts, next_uuid,
                   io_failures>>
    /\ UNCHANGED unit_vars

\* One caller of the coordinator on a table it has created, with the default
\* flush threshold, the compaction loop of start_background_tasks, and the
\* two steps above
CompactInit ==
    /\ config = [memtable_flush_threshold_mb |-> 64]
    /\ keyspaces = [k \in SystemKeyspaces \cup KeyspaceNames |->
                        IF k \in SystemKeyspaces THEN KeyspaceNew
                        ELSE [tables |-> [t \in TableNames |-> TableNew]]]
    /\ commit_log = CommitLogNew
    /\ wal_files = OpenSegment(EmptyMap, 0)
    /\ data_files = EmptyMap
    /\ task_queue = <<>>
    /\ pc = [c \in Clients |-> "idle"]
    /\ call = [c \in Clients |-> NoCall]
    /\ read_guards = [c \in Clients |-> 0]
    /\ acked = {}
    /\ dropped = FALSE
    /\ restarts = 0
    /\ next_uuid = 0
    /\ io_failures = 0
    /\ last_return = NoReturn
    /\ wal_history = <<>>
    /\ shared_memtable = MemtableNew
    /\ put_calls = [c \in Clients |-> NoPut]
    /\ level_manager = NoLevelManager
    /\ background_tasks = BackgroundTasksNew

CompactNext ==
    \/ \E c \in Admins, ks \in KeyspaceNames, t \in TableNames, row \in CompactionRows :
           insert_row_append(c, ks, t, row)
    \/ \E c \in Admins : insert_row_put(c)
    \/ \E c \in Admins : check_memtable_flush(c)
    \/ \E c \in Admins, ks \in KeyspaceNames, t \in TableNames :
           flush_memtable_call(c, ks, t)
    \/ \E c \in Admins : flush_memtable(c)
    \/ run_compaction_loop
    \/ \E ks \in KeyspaceNames, t \in TableNames : send_task_with_inputs(ks, t)
    \/ \E ks \in KeyspaceNames, t \in TableNames : bloom_round_trip(ks, t)

CompactSpec == CompactInit /\ [][CompactNext]_vars

\* ------------------------------- compaction.rs, LevelManager on its own
\* A table handed to the manager is named by the level it is put into and a
\* number that no table of that level carries.
FreshTable(lm, level) ==
    LET used == IF level < lm.max_levels
                THEN {lm.levels[level + 1][i].n : i \in 1..Len(lm.levels[level + 1])}
                ELSE {}
    IN [level |-> level,
        n |-> IF used = {} THEN 1 ELSE 1 + (CHOOSE x \in used : \A y \in used : y <= x)]

\* a level takes tables up to one past its threshold
HasRoom(lm, level) ==
    level < lm.max_levels =>
        /\ Len(lm.levels[level + 1]) <= get_threshold_for_level(lm, level)
        /\ FreshTable(lm, level).n <= get_threshold_for_level(lm, level) + 1

LevelInit ==
    /\ config \in [memtable_flush_threshold_mb : ThresholdsMb]
    /\ keyspaces = [k \in SystemKeyspaces |-> KeyspaceNew]
    /\ commit_log = CommitLogNew
    /\ wal_files = OpenSegment(EmptyMap, 0)
    /\ data_files = EmptyMap
    /\ task_queue = <<>>
    /\ pc = [c \in Clients |-> "idle"]
    /\ call = [c \in Clients |-> NoCall]
    /\ read_guards = [c \in Clients |-> 0]
    /\ acked = {}
    /\ dropped = FALSE
    /\ restarts = 0
    /\ next_uuid = 0
    /\ io_failures = 0
    /\ last_return = NoReturn
    /\ wal_history = <<>>
    /\ shared_memtable = MemtableNew
    /\ put_calls = [c \in Clients |-> NoPut]
    /\ \E max_levels \in 1..MaxLevels, level_size_multiplier \in 1..MaxMultiplier :
           level_manager = LevelManagerNew(max_levels, level_size_multiplier)
    /\ background_tasks = BackgroundTasksNew

level_add_sstable(level) ==
    /\ HasRoom(level_manager, level)
    /\ level_manager' = add_sstable(level_manager, FreshTable(level_manager, level), level)
    /\ last_return' = NoReturn
    /\ UNCHANGED <<config, keyspaces, commit_log, wal_files, data_files, task_queue,
                   pc, call, read_guards, acked, dropped, restarts, next_uuid,
                   io_failures, wal_history, shared_memtable, put_calls,
                   background_tasks>>

level_needs_compaction ==
    /\ last_return' = [call |-> [op |-> "needs_compaction"],
                       result |-> needs_compaction(level_manager)]
    /\ UNCHANGED <<config, keyspaces, commit_log, wal_files, data_files, task_queue,
                   pc, call, read_guards, acked, dropped, restarts, next_uuid,
                   io_failures, unit_vars>>

\* update_after_compaction on an existing level, with all its tables, its
\* newest table or no table as the inputs
level_update_after_compaction(level) ==
    /\ level < level_manager.max_levels
    /\ HasRoom(level_manager, level + 1)
    /\ \E input_sstables \in {level_manager.levels[level + 1],
                              IF level_manager.levels[level + 1] = <<>> THEN <<>>
                              ELSE <<level_manager.levels[level + 1]
                                         [Len(level_manager.levels[level + 1])]>>,
                              <<>>} :
           LET output_sstable == FreshTable(level_manager, level + 1)
           IN /\ level_manager' = update_after_compaction(level_manager, level,
                                                           input_sstables, output_sstable)
              /\ last_return' = [call |-> [op |-> "update_after_compaction",
                                           level |-> level,
                                           input_sstables |-> input_sstables,
                                           output_sstable |-> output_sstable],
                                 result |-> "ok"]
    /\ UNCHANGED <<config, keyspaces, commit_log, wal_files, data_files, task_queue,
                   pc, call, read_guards, acked, dropped, restarts, next_uuid,
                   io_failures, wal_history, shared_memtable, put_calls,
                   background_tasks>>

LevelNext ==
    \/ \E level \in 0..MaxLevels : level_add_sstable(level)
    \/ level_needs_compaction
    \/ \E level \in 0..(MaxLevels - 1) : level_update_after_compaction(level)

LevelSpec == LevelInit /\ [][LevelNext]_vars

\* --------------------- database.rs, the administrative calls and the tasks
\* TableSchema, by the column names of its partition key and clustering key
KeyColumns == {<<>>, <<"id">>, <<"id", "id">>, <<"ts">>}

Schemas == [name : TableNames, partition_key : KeyColumns \ {<<"ts">>},
            clustering_key : {<<"id">>, <<"ts">>}]

\* the row the caller inserts
AdminRows == {r \in CompactionRows : r.partition_key = 1 /\ r.cells.value.timestamp = 1}

\* TableSchema::validate without the loop over the clustering key
validate_partition_key_only(schema) ==
    IF schema.partition_key = <<>> THEN "invalid_schema"
    ELSE IF \E i, j \in 1..Len(schema.partition_key) :
                i < j /\ schema.partition_key[i] = schema.partition_key[j]
         THEN "invalid_schema"
         ELSE "ok"

\* TableSchema::validate: the partition key is not empty, and no name is
\* inserted twice into all_key_columns
validate(schema) ==
    IF schema.partition_key = <<>> THEN "invalid_schema"
    ELSE LET all_key_columns == schema.partition_key \o schema.clustering_key
         IN IF \E i, j \in 1..Len(all_key_columns) :
                   i < j /\ all_key_columns[i] = all_key_columns[j]
            THEN "invalid_schema"
            ELSE "ok"

\* create_table with its schema argument: schema.validate()? comes before
\* the lock on keyspaces is asked for
create_table_schema(c, ks, schema) ==
    /\ pc[c] = "idle"
    /\ LET this == [op |-> "create_table", keyspace |-> ks, table |-> schema.name,
                    schema |-> schema]
       IN IF validate(schema) # "ok"
          THEN /\ last_return' = [call |-> this, result |-> validate(schema)]
               /\ UNCHANGED <<keyspaces, dropped>>
          ELSE /\ ~WriterWaiting
               /\ IF ks \in DOMAIN keyspaces
                  THEN /\ keyspaces' = [keyspaces EXCEPT
                                            ![ks].tables = Upsert(@, schema.name, TableNew)]
                       /\ dropped' = (dropped \/ (TableExists(ks, schema.name)
                                                  /\ TableOf(<<ks, schema.name>>) # TableNew))
                       /\ last_return' = [call |-> this, result |-> "ok"]
                  ELSE /\ last_return' = [call |-> this, result |-> "keyspace_not_found"]
                       /\ UNCHANGED <<keyspaces, dropped>>
    /\ UNCHANGED <<config, commit_log, wal_files, data_files, task_queue, pc, call,
                   read_guards, acked, restarts, next_uuid, io_failures>>
    /\ UNCHANGED unit_vars

\* get_stats with memtable_count taken from the tables' memtables lists
get_stats_memtables_list(kss) ==
    LET tables == {kt \in (DOMAIN kss) \X TableNames : kt[2] \in DOMAIN kss[kt[1]].tables}
        tbl(kt) == kss[kt[1]].tables[kt[2]]
    IN [keyspace_count |-> Cardinality(DOMAIN kss),
        table_count |-> SumOver(DOMAIN kss,
                           [k \in DOMAIN kss |-> Cardinality(DOMAIN kss[k].tables)]),
        memtable_count |-> SumOver(tables, [kt \in tables |-> Len(tbl(kt).memtables)]),
        sstable_count |-> SumOver(tables, [kt \in tables |-> Len(tbl(kt).sstables)]),
        total_size_bytes |->
            SumOver(tables, [kt \in tables |->
                tbl(kt).current_memtable.size_bytes
                + SumSeq([i \in 1..Len(tbl(kt).sstables) |->
                              tbl(kt).sstables[i].size_bytes])])]

\* get_stats: the loops over the keyspaces and their tables
get_stats(kss) ==
    LET tables == {kt \in (DOMAIN kss) \X TableNames : kt[2] \in DOMAIN kss[kt[1]].tables}
        tbl(kt) == kss[kt[1]].tables[kt[2]]
    IN [keyspace_count |-> Cardinality(DOMAIN kss),
        table_count |-> SumOver(DOMAIN kss,
                           [k \in DOMAIN kss |-> Cardinality(DOMAIN kss[k].tables)]),
        memtable_count |-> SumOver(tables, [kt \in tables |-> 1]),
        sstable_count |-> SumOver(tables, [kt \in tables |-> Len(tbl(kt).sstables)]),
        total_size_bytes |->
            SumOver(tables, [kt \in tables |->
                tbl(kt).current_memtable.size_bytes
                + SumSeq([i \in 1..Len(tbl(kt).sstables) |->
                              tbl(kt).sstables[i].size_bytes])])]

\* a get_stats call: keyspaces.read().await, the loops, the return
get_stats_call(c) ==
    /\ pc[c] = "idle"
    /\ ~WriterWaiting
    /\ last_return' = [call |-> [NoCall EXCEPT !.op = "get_stats"],
                       result |-> get_stats(keyspaces)]
    /\ UNCHANGED <<config, keyspaces, commit_log, wal_files, data_files, task_queue,
                   pc, call, read_guards, acked, dropped, restarts, next_uuid,
                   io_failures>>
    /\ UNCHANGED unit_vars

\* the TTL task of start_background_tasks, one turn of its loop:
\* interval.tick().await, then cleanup_expired_data, which takes the read
\* lock on keyspaces and does nothing else
ttl_sweep ==
    /\ background_tasks.ttl_sweep = "running"
    /\ ~WriterWaiting
    /\ last_return' = [call |-> [NoCall EXCEPT !.op = "cleanup_expired_data"],
                       result |-> "none"]
    /\ UNCHANGED <<config, keyspaces, commit_log, wal_files, data_files, task_queue,
                   pc, call, read_guards, acked, dropped, restarts, next_uuid,
                   io_failures>>
    /\ UNCHANGED unit_vars

\* One caller of the coordinator that CoreDB::new has built, and the two
\* tasks it has spawned
AdminNext ==
    \/ \E c \in Admins, name \in KeyspaceNames : create_keyspace_call(c, name)
    \/ \E c \in Admins : create_keyspace(c)
    \/ \E c \in Admins, ks \in KeyspaceNames \cup {"system"}, schema \in Schemas :
           create_table_schema(c, ks, schema)
    \/ \E c \in Admins, ks \in KeyspaceNames, t \in TableNames, row \in AdminRows :
           insert_row_append(c, ks, t, row)
    \/ \E c \in Admins : insert_row_put(c)
    \/ \E c \in Admins : check_memtable_flush(c)
    \/ \E c \in Admins, ks \in KeyspaceNames, t \in TableNames :
           flush_memtable_call(c, ks, t)
    \/ \E c \in Admins : flush_memtable(c)
    \/ \E c \in Admins : shutdown(c)
    \/ \E c \in Admins : get_stats_call(c)
    \/ ttl_sweep
    \/ run_compaction_loop

AdminSpec == Init /\ [][AdminNext]_vars

\* the tasks get their turns and the calls go on
AdminFairSpec == AdminSpec /\ WF_vars(AdminNext) /\ WF_vars(ttl_sweep)
                           /\ WF_vars(run_compaction_loop)

\* ------------------------------ memtable.rs, put by one thread on its own
\* Rows of one column or of two columns, so that a row is replaced by a
\* larger one and by a smaller one.
SizedRows ==
    {[partition_key |-> pk, clustering_key |-> ck,
      cells |-> [value |-> [timestamp |-> ts, is_deleted |-> FALSE]],
      timestamp |-> 1] : pk \in ScanPartitions, ck \in {NoneCK, 1}, ts \in Timestamps}
    \cup
    {[partition_key |-> pk, clustering_key |-> ck,
      cells |-> [value |-> [timestamp |-> 1, is_deleted |-> FALSE],
                 extra |-> [timestamp |-> 1, is_deleted |-> FALSE]],
      timestamp |-> 1] : pk \in ScanPartitions, ck \in {NoneCK, 1}}

\* Memtable::put, and size_bytes() read before and after it
memtable_put_sized(row) ==
    /\ shared_memtable' = put(shared_memtable, row)
    /\ last_return' = [call |-> [op |-> "put", row |-> row,
                                 size_before |-> shared_memtable.size_bytes],
                       result |-> put(shared_memtable, row).size_bytes]
    /\ UNCHANGED <<config, keyspaces, commit_log, wal_files, data_files, task_queue,
                   pc, call, read_guards, acked, dropped, restarts, next_uuid,
                   io_failures, wal_history, put_calls, level_manager,
                   background_tasks>>

SizeNext == \E row \in SizedRows : memtable_put_sized(row)

SizeSpec == Init /\ [][SizeNext]_vars

\* ------------------- schema.rs, the order of keys, and memtable.rs on it
\* CassandraValue: Int(v), Text of v letters "a", Map of v entries to Null
KeyValues == [kind : {"Int", "Text", "Map"}, v : 1..MaxKeyValue]

\* CassandraValue::partial_cmp
partial_cmp(a, b) ==
    IF a.kind = "Map" /\ b.kind = "Map" THEN "Equal"
    ELSE IF a.kind = b.kind
    THEN (IF a.v < b.v THEN "Less" ELSE IF a.v = b.v THEN "Equal" ELSE "Greater")
    ELSE "None"

\* CassandraValue::cmp: partial_cmp(..).unwrap_or(Ordering::Equal)
cmp(a, b) == IF partial_cmp(a, b) = "None" THEN "Equal" ELSE partial_cmp(a, b)

\* the derived Ord of PartitionKey: Vec<CassandraValue> compared
\* lexicographically, then by length
RECURSIVE key_cmp(_, _)
key_cmp(a, b) ==
    IF a = <<>> /\ b = <<>> THEN "Equal"
    ELSE IF a = <<>> THEN "Less"
    ELSE IF b = <<>> THEN "Greater"
    ELSE IF cmp(Head(a), Head(b)) # "Equal" THEN cmp(Head(a), Head(b))
    ELSE key_cmp(Tail(a), Tail(b))

\* CassandraValue::serialized_size
ValueSerializedSize(value) ==
    IF value.kind = "Int" THEN IntSize
    ELSE IF value.kind = "Text" THEN 8 + value.v
    ELSE 8 + value.v * (8 + 1 + 1)

\* PartitionKey::serialized_size
KeySerializedSize(key) ==
    8 + SumSeq([i \in 1..Len(key) |-> ValueSerializedSize(key[i])])

\* calculate_row_size of a row with one Int cell "value" and no clustering key
KeyedRowSize(row) ==
    KeySerializedSize(row.partition_key) + (ColumnNameLen + IntSize + CellMetaSize)

\* rows under partition keys of one component
KeyedRows ==
    {[partition_key |-> <<value>>, clustering_key |-> NoneCK,
      cells |-> [value |-> [timestamp |-> ts, is_deleted |-> FALSE]],
      timestamp |-> 1] : value \in KeyValues, ts \in {1, MaxTs}}

\* SkipMap's search for key: the first entry, in the order of the map, whose
\* key is not Less than key; it is a hit when the two compare Equal
SkipMapSearch(partitions, key) ==
    LET not_less == {k \in DOMAIN partitions : key_cmp(k, key) # "Less"}
    IN IF not_less = {} THEN None
       ELSE LET first == CHOOSE k \in not_less :
                             \A k2 \in not_less : key_cmp(k, k2) # "Greater"
            IN IF key_cmp(first, key) = "Equal"
               THEN [kind |-> "entry", key |-> first]
               ELSE None

\* Memtable::put: get_or_insert_with keeps the entry the search finds
put_keyed(m, row) ==
    LET found == SkipMapSearch(m.partitions, row.partition_key)
        key == IF found.kind = "entry" THEN found.key ELSE row.partition_key
        partition == IF found.kind = "entry" THEN m.partitions[key] ELSE PartitionNew
        row_size == KeyedRowSize(row)
        new_size ==
            IF row.clustering_key \in DOMAIN partition.rows
            THEN WrappingAdd(m.size_bytes,
                             row_size - KeyedRowSize(partition.rows[row.clustering_key]))
            ELSE WrappingAdd(m.size_bytes, row_size)
    IN [partitions |->
            Upsert(m.partitions, key,
                   [partition EXCEPT !.rows = Upsert(partition.rows,
                                                     row.clustering_key, row)]),
        size_bytes |-> new_size]

\* Memtable::get
get_keyed(m, partition_key, clustering_key) ==
    LET found == SkipMapSearch(m.partitions, partition_key)
    IN IF found.kind = "entry"
          /\ clustering_key \in DOMAIN m.partitions[found.key].rows
       THEN SomeRow(m.partitions[found.key].rows[clustering_key])
       ELSE None

memtable_put_keyed(row) ==
    /\ shared_memtable' = put_keyed(shared_memtable, row)
    /\ last_return' = [call |-> [op |-> "put_keyed", row |-> row], result |-> "ok"]
    /\ UNCHANGED <<config, keyspaces, commit_log, wal_files, data_files, task_queue,
                   pc, call, read_guards, acked, dropped, restarts, next_uuid,
                   io_failures, wal_history, put_calls, level_manager,
                   background_tasks>>

memtable_get_keyed(partition_key) ==
    /\ last_return' = [call |-> [op |-> "get_keyed", partition_key |-> partition_key],
                       result |-> get_keyed(shared_memtable, partition_key, NoneCK)]
    /\ UNCHANGED <<config, keyspaces, commit_log, wal_files, data_files, task_queue,
                   pc, call, read_guards, acked, dropped, restarts, next_uuid,
                   io_failures, unit_vars>>

KeyNext ==
    \/ \E row \in KeyedRows : memtable_put_keyed(row)
    \/ \E value \in KeyValues : memtable_get_keyed(<<value>>)

KeySpec == Init /\ [][KeyNext]_vars

\* ------------------------------------------------------------ properties
AllIdle == \A c \in Clients : pc[c] = "idle"

Range(s) == {s[i] : i \in 1..Len(s)}

Last(s) == s[Len(s)]

Keys == PartitionKeys \X ClusteringKeys

KeyOf(row) == <<row.partition_key, row.clustering_key>>

\* C1: every row held by a table's current memtable has its CommitLogEntry
\* in a segment file of the WAL (appended and flushed), in every reachable
\* state and under every interleaving of the callers.
C1_WalBeforeMemtable ==
    \A kt \in AllTables :
        \A r \in MemtableRows(TableOf(kt).current_memtable) :
            CommitLogEntry(kt[1], kt[2], r) \in Range(WalEntries(wal_files))

\* two callers are inside insert_row at once: one has put its row, the
\* other has appended its entry and not yet put
C1_Witness ==
    /\ \E kt \in AllTables : MemtableRows(TableOf(kt).current_memtable) # {}
    /\ \E c, d \in Clients : pc[c] = "check" /\ pc[d] = "put"

\* C2: after a restart on the same directories get_row returns, for every
\* insert_row that returned Ok, a row of that key that was inserted.
C2_DurableAcrossRestart ==
    (restarts > 0 /\ ~dropped) =>
        \A e \in acked :
            LET r == get_row(e.keyspace, e.table, e.row.partition_key,
                             e.row.clustering_key)
            IN /\ r.kind = "row"
               /\ CommitLogEntry(e.keyspace, e.table, r.row) \in acked

\* some call in progress is able to take its next step.  When this is false
\* the engine is stuck: the steps left are new calls and a restart, and a new
\* call releases no guard that a call in progress holds.
CanGoOn == ENABLED (\E d \in Clients : Continue(d))

\* C3: an insert_row whose put took the memtable over the flush threshold, so
\* that check_memtable_flush calls flush_memtable, eventually returns: while
\* it waits in the flush, the engine is never stuck.
C3_InsertReturns ==
    \A c \in Clients :
        (call[c].op = "insert_row" /\ pc[c] = "flush_wait") => CanGoOn

\* C4: every shutdown call eventually returns, also when tables exist: while
\* a shutdown is in progress, the engine is never stuck.
C4_ShutdownReturns ==
    \A c \in Clients : (call[c].op = "shutdown" /\ pc[c] # "idle") => CanGoOn

\* C5: an insert_row that returned an error has neither written its record
\* to the WAL nor put its row into a memtable.
C5_FailedInsertNoEffect ==
    (last_return.call.op = "insert_row" /\ last_return.result # "ok") =>
        (~last_return.call.appended /\ ~last_return.call.put_done)

\* the row of the entry appended last to the WAL for the key of row r, among
\* the entries of the calls that returned Ok
LastWalRow(kt, r) ==
    LET es == WalEntries(wal_files)
        idx == {i \in 1..Len(es) : /\ es[i] \in acked
                                   /\ es[i].keyspace = kt[1]
                                   /\ es[i].table = kt[2]
                                   /\ KeyOf(es[i].row) = KeyOf(r)}
    IN IF idx = {} THEN NoRow
       ELSE es[CHOOSE i \in idx : \A j \in idx : j <= i].row

\* C6: when all calls have returned, the row a memtable holds for a key is
\* the row that the insert_row calls which returned Ok appended last to the
\* WAL for that key.
C6_CommitOrderIsWalOrder ==
    AllIdle =>
        \A kt \in AllTables :
            \A r \in MemtableRows(TableOf(kt).current_memtable) :
                r = LastWalRow(kt, r)

\* the rows that the blocks written to an SSTable's file carry
SSTableRowsIn(files, sstable) ==
    IF sstable.id \notin DOMAIN files THEN {}
    ELSE LET file == files[sstable.id]
         IN UNION {{file[i].block.rows[j].row : j \in 1..Len(file[i].block.rows)} :
                       i \in {k \in 1..Len(file) : file[k].kind = "block"}}

SSTableRows(sstable) == SSTableRowsIn(data_files, sstable)

\* the rows some component of table kt holds for a key
HeldRows(kt, key) ==
    {r \in MemtableRows(TableOf(kt).current_memtable) : KeyOf(r) = key}
    \cup UNION {{r \in SSTableRows(TableOf(kt).sstables[i]) : KeyOf(r) = key} :
                    i \in 1..Len(TableOf(kt).sstables)}

MaxOf(S) == CHOOSE x \in S : \A y \in S : y <= x

\* C7: when the memtable and the SSTables of a table hold cells of one
\* (partition, clustering, column) with different timestamps, get_row
\* returns the cell with the largest timestamp.
C7_ReadReconciliation ==
    \A kt \in AllTables, key \in Keys :
        LET stamps == {r.cells.value.timestamp : r \in HeldRows(kt, key)}
            got == get_row(kt[1], kt[2], key[1], key[2])
        IN Cardinality(stamps) >= 2 =>
               /\ got.kind = "row"
               /\ got.row.cells.value.timestamp = MaxOf(stamps)

\* C8: after insert_row calls on one key (no flush, re-creation or restart
\* in between) get_row returns the row with the largest write timestamp
\* among them.
C8_LastWriteWins ==
    (AllIdle /\ ~dropped /\ restarts = 0 /\ next_uuid = 0 /\ io_failures = 0) =>
        \A e \in acked :
            LET same == {f \in acked : /\ f.keyspace = e.keyspace
                                       /\ f.table = e.table
                                       /\ KeyOf(f.row) = KeyOf(e.row)}
                got == get_row(e.keyspace, e.table, e.row.partition_key,
                               e.row.clustering_key)
            IN /\ got.kind = "row"
               /\ got.row.timestamp = MaxOf({f.row.timestamp : f \in same})

\* a step in which flush_memtable installed a new SSTable in table kt
FlushInstalled(kt) ==
    /\ kt \in AllTables
    /\ kt[1] \in DOMAIN keyspaces'
    /\ kt[2] \in DOMAIN keyspaces'[kt[1]].tables
    /\ Len(keyspaces'[kt[1]].tables[kt[2]].sstables) = Len(TableOf(kt).sstables) + 1

\* C9: read_partition on the SSTable a flush has built returns, for every
\* partition key of the flushed memtable, a partition that holds each of its
\* rows under the row's clustering key, and absent for every other key.
C9_FlushPreservesContent ==
    [][\A kt \in AllTables :
          FlushInstalled(kt) =>
              LET old == TableOf(kt).current_memtable
                  sstable == Last(keyspaces'[kt[1]].tables[kt[2]].sstables)
              IN \A pk \in PartitionKeys :
                     LET got == read_partition(sstable, data_files', pk)
                     IN IF pk \in DOMAIN old.partitions
                        THEN /\ got.kind = "partition"
                             /\ \A ck \in DOMAIN old.partitions[pk].rows :
                                    /\ ck \in DOMAIN got.partition.rows
                                    /\ got.partition.rows[ck] = old.partitions[pk].rows[ck]
                        ELSE got.kind = "none"]_vars

\* a step in which client c's flush_memtable of table kt failed
FlushFailed(c, kt) ==
    /\ pc[c] = "flush_wait"
    /\ call[c].flush = kt
    /\ io_failures' = io_failures + 1

\* C10: after a failed flush get_row still returns every row that the
\* memtable being flushed held.
C10_FailedFlushKeepsRows ==
    [][\A c \in Clients, kt \in AllTables :
          FlushFailed(c, kt) =>
              \A r \in MemtableRows(TableOf(kt).current_memtable) :
                  GetRowIn(keyspaces', data_files', kt[1], kt[2],
                           r.partition_key, r.clustering_key) = SomeRow(r)]_vars

\* C11: a memtable that flush_memtable has swapped out receives no further
\* put: the SSTable a flush installs holds exactly the rows the memtable held
\* when it was swapped out, and every row of an insert_row that returned Ok
\* is, as long as its table lives, in the current memtable or in an
\* installed SSTable (itself or a row that replaced it under its key).
C11_OnlyWritableAcceptsPuts ==
    /\ [][\A kt \in AllTables :
              FlushInstalled(kt) =>
                  SSTableRowsIn(data_files', Last(keyspaces'[kt[1]].tables[kt[2]].sstables))
                      = MemtableRows(TableOf(kt).current_memtable)]_vars
    /\ []((~dropped /\ restarts = 0) =>
              \A e \in acked :
                  /\ TableExists(e.keyspace, e.table)
                  /\ HeldRows(<<e.keyspace, e.table>>, KeyOf(e.row)) # {})


\* the entries the append calls of the history put into segment id, in order
EntriesOf(ops) == [i \in 1..Len(ops) |-> ops[i].entry]

IsAppend(o) == o.op = "append"

AppendedTo(id) ==
    LET InSegment(o) == IsAppend(o) /\ o.segment = id
    IN EntriesOf(SelectSeq(wal_history, InSegment))

OnlyAppends == \A i \in 1..Len(wal_history) : IsAppend(wal_history[i])

\* C12: on a directory written by the append calls of one CommitLog,
\* replay_from_segment(id) returns Ok with exactly the entries appended to
\* segment id, one per append and in append order, and the length prefix of
\* every record is decoded to the length of its entry.
C12_ReplayRoundTrip ==
    (wal_history # <<>> /\ OnlyAppends) =>
        \A id \in DOMAIN wal_files :
            /\ replay_from_segment(wal_files, id) = OkEntries(AppendedTo(id))
            /\ \A i \in 1..Len(wal_files[id]) :
                   u32_from_le_bytes(wal_files[id][i].prefix)
                       = EntrySize(wal_files[id][i].entry)

NoCrash == \A i \in 1..Len(wal_history) : wal_history[i].op # "crash"

\* the appended entries whose segment file no later cleanup_old_segments
\* removed, in append order
SurvivingEntries ==
    LET Survives(i) == \A j \in (i + 1)..Len(wal_history) :
                           wal_history[i].segment \notin DOMAIN wal_history[j].removed
        kept == SetToSortedSeq({i \in 1..Len(wal_history) :
                                    IsAppend(wal_history[i]) /\ Survives(i)})
    IN [k \in 1..Len(kept) |-> wal_history[kept[k]].entry]

\* C13: after any sequence of append (with rotations), cleanup_old_segments
\* and CommitLog::new on the same directory, replay_all returns Ok with
\* exactly the appended entries whose segments are still on disk, each once
\* and in the order in which they were appended.
C13_ReplayAllInAppendOrder ==
    NoCrash => replay_all(wal_files) = OkEntries(SurvivingEntries)

\* the complete records of a segment file, as entries
CompleteEntries(records) ==
    LET IsComplete(record) == ~IsTruncated(record)
    IN EntriesOf(SelectSeq(records, IsComplete))

\* C14: replay_from_segment on a segment whose last record is truncated,
\* inside the length prefix or inside the entry, returns Ok with the
\* complete entries that precede the truncation point.
C14_TruncatedTailIsNotAnError ==
    \A id \in DOMAIN wal_files :
        (wal_files[id] # <<>> /\ IsTruncated(Last(wal_files[id]))) =>
            replay_from_segment(wal_files, id)
                = OkEntries(CompleteEntries(wal_files[id]))

\* the step is a CommitLog::append that returned Ok
AppendStep ==
    /\ Len(wal_history') = Len(wal_history) + 1
    /\ IsAppend(Last(wal_history'))

\* the entries appended through the CommitLog instance that is open
RECURSIVE InstanceEntries(_)
InstanceEntries(ops) ==
    IF ops = <<>> \/ Last(ops).op \in {"new", "crash"} THEN <<>>
    ELSE LET before == InstanceEntries(SubSeq(ops, 1, Len(ops) - 1))
         IN IF IsAppend(Last(ops)) THEN Append(before, Last(ops).entry) ELSE before

Fits(entry) == EntrySize(entry) + 4 <= commit_log.segment_size_limit

\* C15: an append rotates exactly when current_segment_size + entry_size + 4
\* > segment_size_limit holds before the write; a rotation increments
\* segment_id by exactly 1 and restarts current_segment_size from 0, and the
\* record lands in the segment that is current after the call; when every
\* entry appended through the instance fits a segment, current_segment_size
\* does not exceed segment_size_limit.
C15_RotationRule ==
    /\ [][AppendStep =>
            LET entry_size == EntrySize(Last(wal_history').entry)
                due == commit_log.current_segment_size + entry_size + 4
                           > commit_log.segment_size_limit
            IN /\ commit_log'.segment_id
                      = commit_log.segment_id + (IF due THEN 1 ELSE 0)
               /\ commit_log'.current_segment_size
                      = (IF due THEN 0 ELSE commit_log.current_segment_size)
                            + entry_size + 4
               /\ commit_log'.segment_id \in DOMAIN wal_files'
               /\ Last(wal_files'[commit_log'.segment_id])
                      = WalRecord(Last(wal_history').entry)]_vars
    /\ []((\A e \in Range(InstanceEntries(wal_history)) : Fits(e)) =>
              commit_log.current_segment_size <= commit_log.segment_size_limit)

\* a second record written into a segment the log rotated to
C15_Witness ==
    /\ wal_history # <<>>
    /\ IsAppend(Last(wal_history))
    /\ commit_log.segment_id > 0
    /\ commit_log.current_segment_size > 4 + EntrySize(Last(wal_history).entry)
    /\ commit_log.current_segment_size <= commit_log.segment_size_limit
    /\ commit_log.segment_size_limit < SegmentSizeLimit

\* the step is a CommitLog::cleanup_old_segments that returned Ok
CleanupStep ==
    /\ Len(wal_history') = Len(wal_history) + 1
    /\ Last(wal_history').op = "cleanup"

\* C16: after cleanup_old_segments(keep) returned Ok, on a first call and on
\* any later one, the segment files on disk are exactly those present before
\* the call whose id is at least segment_id - keep (saturating at 0).
C16_CleanupKeepsExactlyRecent ==
    [][CleanupStep =>
          DOMAIN wal_files'
              = {id \in DOMAIN wal_files :
                     id >= saturating_sub(commit_log.segment_id,
                                          Last(wal_history').keep)}]_vars

\* a record of entry e is in a segment file on disk
InWalOnDisk(e) ==
    \E id \in DOMAIN wal_files : WalRecord(e) \in Range(wal_files[id])

\* the row of entry e is in an SSTable installed in its table's list
InInstalledSSTable(e) ==
    /\ TableExists(e.keyspace, e.table)
    /\ \E sstable \in Range(TableOf(<<e.keyspace, e.table>>).sstables) :
           e.row \in SSTableRows(sstable)

SameKey(e, f) ==
    /\ f.keyspace = e.keyspace
    /\ f.table = e.table
    /\ KeyOf(f.row) = KeyOf(e.row)

\* C17: no WAL segment is deleted while it holds a mutation that no
\* installed SSTable contains: every row that insert_row accepted (and no
\* later insert overwrote) is in an installed SSTable or in a WAL segment
\* on disk.
C17_NoUnflushedSegmentDeleted ==
    \A e \in acked :
        (\A f \in acked : SameKey(e, f) => f = e) =>
            InWalOnDisk(e) \/ InInstalledSSTable(e)

C19_NoTombstoneReturned ==
    \A kt \in AllTables, key \in Keys :
        LET got == get_row(kt[1], kt[2], key[1], key[2])
        IN got.kind = "row" => ~got.row.cells.value.is_deleted

NoPutRunning == \A c \in Clients : put_calls[c].pc = "idle"

\* C20: once all the Memtable::put calls of the threads have returned,
\* size_bytes is the sum of calculate_row_size over the rows the memtable
\* holds, whatever the interleaving of the calls was.
C20_SizeBytesIsSumOfRows ==
    NoPutRunning =>
        shared_memtable.size_bytes
            = SumOver(MemtableRows(shared_memtable),
                      [r \in MemtableRows(shared_memtable) |-> calculate_row_size(r)])

\* the last step was range_scan(pk, start, end)
Scanned == last_return.call.op = "range_scan"

\* the rows of partition pk of the scanned memtable whose clustering key
\* satisfies Wanted, in ascending order of the clustering key
RowsInOrder(pk, Wanted(_)) ==
    LET held == IF pk \in DOMAIN shared_memtable.partitions
                THEN shared_memtable.partitions[pk].rows ELSE EmptyMap
        keys == SetToSortedSeq({k \in DOMAIN held : Wanted(k)})
    IN [i \in 1..Len(keys) |-> held[keys[i]]]

\* C21: range_scan(pk, Some(start), Some(end)) with start <= end returns
\* exactly the rows of partition pk with start <= clustering key <= end,
\* in strictly ascending clustering-key order, and the empty list for a
\* partition key the memtable does not hold.
C21_RangeScanInclusiveAscending ==
    LET c == last_return.call
        got == last_return.result
    IN (/\ Scanned
        /\ c.start_clustering # NoneCK
        /\ c.end_clustering # NoneCK
        /\ c.start_clustering <= c.end_clustering) =>
           LET InRange(k) == k # NoneCK /\ c.start_clustering <= k
                                        /\ k <= c.end_clustering
           IN /\ got = RowsInOrder(c.partition_key, InRange)
              /\ \A i \in 1..(Len(got) - 1) :
                     got[i].clustering_key < got[i + 1].clustering_key
              /\ c.partition_key \notin DOMAIN shared_memtable.partitions
                     => got = <<>>

\* a scan between two Some endpoints that returned two rows and left out a
\* row below the start
C21_Witness ==
    /\ Scanned
    /\ last_return.call.start_clustering # NoneCK
    /\ last_return.call.start_clustering < last_return.call.end_clustering
    /\ Len(last_return.result) = 2
    /\ NoneCK \in DOMAIN shared_memtable.partitions[last_return.call.partition_key].rows

\* C22: an absent endpoint is unbounded: range_scan(pk, Some(start), None)
\* returns every row of pk with clustering key >= start, and
\* range_scan(pk, None, None) returns every row of the partition.
C22_AbsentEndpointIsUnbounded ==
    LET c == last_return.call
        FromStart(k) == k # NoneCK /\ c.start_clustering <= k
        EveryKey(k) == TRUE
    IN (Scanned /\ c.end_clustering = NoneCK) =>
           last_return.result
               = IF c.start_clustering = NoneCK
                 THEN RowsInOrder(c.partition_key, EveryKey)
                 ELSE RowsInOrder(c.partition_key, FromStart)

\* the SSTables in the lists of the tables
InstalledSSTables == UNION {Range(TableOf(kt).sstables) : kt \in AllTables}

\* C23: the bloom filter has no false negatives.  Every key in the partition
\* index of an SSTable built by create_from_memtable passes might_contain on
\* the SSTable's filter, goes on passing it whatever key is added afterwards,
\* and read_partition does not report the key absent.
C23_BloomHasNoFalseNegatives ==
    \A sstable \in InstalledSSTables :
        \A k \in DOMAIN sstable.partition_index :
            /\ might_contain(sstable.bloom_filter, k)
            /\ \A j \in PartitionKeys : might_contain(add(sstable.bloom_filter, j), k)
            /\ read_partition(sstable, data_files, k) # None

\* an SSTable that holds two partitions, whose keys share a bit of the filter
C23_Witness ==
    \E sstable \in InstalledSSTables :
        /\ Cardinality(DOMAIN sstable.partition_index) >= 2
        /\ \E j, k \in DOMAIN sstable.partition_index :
               j # k /\ KeyBits(j) \cap KeyBits(k) # {}

\* a round trip of a bloom filter has just returned
RoundTripped == last_return.call.op = "bloom_round_trip"

\* C24: a bloom filter that was serialized and deserialized answers
\* might_contain as the original does, for every key.
C24_RoundTripAnswersAlike ==
    RoundTripped =>
        \A k \in PartitionKeys :
            might_contain(last_return.result, k)
                = might_contain(last_return.call.filter, k)

\* C25: the timestamp range of an SSTable built by create_from_memtable
\* bounds the timestamp of every cell the SSTable holds, also of a cell whose
\* timestamp differs from its row's.
C25_TimestampRangeBoundsEveryCell ==
    \A sstable \in InstalledSSTables :
        \A r \in SSTableRows(sstable) :
            /\ sstable.min_timestamp <= r.cells.value.timestamp
            /\ r.cells.value.timestamp <= sstable.max_timestamp

LoopStep ==
    /\ task_queue # <<>>
    /\ task_queue' = Tail(task_queue)
    /\ last_return'.call.op = "execute_compaction"

\* the rows in the files of the SSTables in the sequence inputs
InputRows(inputs) ==
    UNION {SSTableRows(inputs[i]) : i \in 1..Len(inputs)}

\* C27: the compaction of two SSTables writes an output SSTable that holds,
\* for every key of the inputs, the cell with the largest timestamp, so that
\* no key of an input is lost.
C27_CompactionKeepsNewestCells ==
    [][LET inputs == Head(task_queue).input_sstables
       IN (LoopStep /\ Len(inputs) >= 2 /\ InputRows(inputs) # {}) =>
              \E id \in (DOMAIN data_files') \ (DOMAIN data_files) :
                  \A r \in InputRows(inputs) :
                      \E o \in SSTableRowsIn(data_files', [id |-> id]) :
                          /\ KeyOf(o) = KeyOf(r)
                          /\ o.cells.value.timestamp >= r.cells.value.timestamp
                          /\ o \in InputRows(inputs)]_vars

\* C28: when the flushes have left a table with MinThreshold SSTables or
\* more, the task that flush_memtable scheduled is executed on them and
\* leaves one merged SSTable; so once the loop has executed every task and
\* no call is running, no table holds that many SSTables with partitions
\* in them.
C28_ScheduledCompactionMerges ==
    (task_queue = <<>> /\ \A c \in Clients : pc[c] = "idle") =>
        \A kt \in AllTables :
            Cardinality({i \in 1..Len(TableOf(kt).sstables) :
                            DOMAIN TableOf(kt).sstables[i].partition_index # {}})
                < MinThreshold

C30_OnePendingTaskPerTable ==
    \A i, j \in 1..Len(task_queue) :
        (/\ task_queue[i].keyspace = task_queue[j].keyspace
         /\ task_queue[i].table = task_queue[j].table) => i = j

\* a create_keyspace or create_table call for a name that existed returns Ok
\* in this step
RecreationStep ==
    /\ last_return'.result = "ok"
    /\ \/ /\ last_return'.call.op = "create_keyspace"
          /\ last_return'.call.keyspace \in DOMAIN keyspaces
       \/ /\ last_return'.call.op = "create_table"
          /\ TableExists(last_return'.call.keyspace, last_return'.call.table)

\* C32: re-creation is idempotent.  create_keyspace for a keyspace that
\* exists and create_table for a table that exists leave the keyspace's
\* tables, the table's memtable rows and its SSTable list as they were, and
\* get_row returns what it returned before.
C32_RecreationKeepsContents ==
    [][RecreationStep =>
           /\ keyspaces' = keyspaces
           /\ \A ks \in KeyspaceNames, t \in TableNames, k \in Keys :
                  GetRowIn(keyspaces', data_files', ks, t, k[1], k[2])
                      = get_row(ks, t, k[1], k[2])]_vars

\* the step in which flush_memtable installs an SSTable
FlushStep == next_uuid' = next_uuid + 1

\* C40: a flush is transparent to reads.  For every key get_row returns
\* after the flush of a table what it returned before it.
C40_FlushIsTransparentToReads ==
    [][FlushStep =>
           \A ks \in KeyspaceNames, t \in TableNames, k \in Keys :
               GetRowIn(keyspaces', data_files', ks, t, k[1], k[2])
                   = get_row(ks, t, k[1], k[2])]_vars

\* the writes of partition blocks in a file: the length prefix and the block
BlockWrites(file) == {i \in 1..Len(file) : file[i].kind \in {"u32", "block"}}

\* C37: the offset that the partition index of an SSTable records for a
\* partition is the file position at which the length prefix of that
\* partition's block was written, and the header written last at position 0
\* covers no byte of a partition block.
C37_IndexOffsetsAreBlockPositions ==
    \A sstable \in InstalledSSTables :
        sstable.id \in DOMAIN data_files =>
            LET file == data_files[sstable.id]
            IN /\ \A k \in DOMAIN sstable.partition_index :
                      \E i \in 1..(Len(file) - 1) :
                          /\ file[i].kind = "u32"
                          /\ file[i].at = sstable.partition_index[k]
                          /\ file[i + 1].kind = "block"
                          /\ \A j \in 1..Len(file[i + 1].block.rows) :
                                 file[i + 1].block.rows[j].row.partition_key = k
               /\ \A i \in BlockWrites(file) : file[i].at >= HeaderSize

\* the levels of the manager that have reached their threshold
DueLevels ==
    {k \in 0..(level_manager.max_levels - 1) :
        Len(level_manager.levels[k + 1])
            >= (IF k = 0 THEN 4
                ELSE 10 * powi(level_manager.level_size_multiplier, k))}

HeldTables ==
    UNION {{level_manager.levels[k][i] : i \in 1..Len(level_manager.levels[k])}
           : k \in 1..level_manager.max_levels}

\* C35: after update_after_compaction with the tables of any level of the
\* manager as inputs, the last level included, none of the inputs is left in
\* the manager and the output table is held by the manager.
C35_OutputStaysInManager ==
    (/\ last_return.call.op = "update_after_compaction"
     /\ last_return.call.input_sstables # <<>>) =>
        /\ \A i \in 1..Len(last_return.call.input_sstables) :
               last_return.call.input_sstables[i] \notin HeldTables
        /\ last_return.call.output_sstable \in HeldTables

\* the invalid schemas: an empty partition key, or a column name that occurs
\* twice across the partition key and the clustering key
InvalidSchema(schema) ==
    \/ Len(schema.partition_key) = 0
    \/ Cardinality(Range(schema.partition_key) \cup Range(schema.clustering_key))
           < Len(schema.partition_key) + Len(schema.clustering_key)

\* C33: create_table rejects an invalid schema with InvalidSchema and a
\* missing keyspace with KeyspaceNotFound; a rejected call leaves the
\* keyspaces, the files and the WAL as they were; any other call returns Ok
\* and installs a table with an empty current memtable and no SSTables.
C33_CreateTableRejectsOrInstalls ==
    [][last_return'.call.op = "create_table" =>
           LET this == last_return'.call
           IN IF InvalidSchema(this.schema)
              THEN /\ last_return'.result = "invalid_schema"
                   /\ UNCHANGED <<keyspaces, data_files, wal_files, commit_log, task_queue>>
              ELSE IF this.keyspace \notin DOMAIN keyspaces
              THEN /\ last_return'.result = "keyspace_not_found"
                   /\ UNCHANGED <<keyspaces, data_files, wal_files, commit_log, task_queue>>
              ELSE /\ last_return'.result = "ok"
                   /\ this.table \in DOMAIN keyspaces'[this.keyspace].tables
                   /\ keyspaces'[this.keyspace].tables[this.table].current_memtable
                          = MemtableNew
                   /\ keyspaces'[this.keyspace].tables[this.table].sstables = <<>>
                   /\ \A k \in DOMAIN keyspaces :
                          \A t \in DOMAIN keyspaces[k].tables :
                              <<k, t>> # <<this.keyspace, this.table>> =>
                                  keyspaces'[k].tables[t] = keyspaces[k].tables[t]]_vars

\* a schema whose clustering key repeats the partition key's column has been
\* rejected while its keyspace exists
C33_Witness ==
    /\ last_return.call.op = "create_table"
    /\ last_return.result = "invalid_schema"
    /\ last_return.call.schema.partition_key = <<"id">>
    /\ last_return.call.schema.clustering_key = <<"id">>
    /\ last_return.call.keyspace \in DOMAIN keyspaces
    /\ AllTables # {}

\* the SSTables listed by the tables, counted by list
ListedSSTableCount ==
    SumOver(AllTables, [kt \in AllTables |-> Len(TableOf(kt).sstables)])

\* C36: get_stats reports the number of keyspaces, which is at least 2, the
\* number of tables, as many memtables as tables, and the sum of the lengths
\* of the tables' SSTable lists; create_keyspace of a new name raises the
\* keyspace count it reports by one.
C36_StatsCountWhatExists ==
    [][/\ last_return'.call.op = "get_stats" =>
              /\ last_return'.result.keyspace_count = Cardinality(DOMAIN keyspaces')
              /\ last_return'.result.keyspace_count >= 2
              /\ last_return'.result.table_count = Cardinality(AllTables)
              /\ last_return'.result.memtable_count = last_return'.result.table_count
              /\ last_return'.result.sstable_count = ListedSSTableCount
       /\ (/\ last_return'.call.op = "create_keyspace"
           /\ last_return'.result = "ok"
           /\ last_return'.call.keyspace \notin DOMAIN keyspaces) =>
              get_stats(keyspaces').keyspace_count
                  = get_stats(keyspaces).keyspace_count + 1]_vars

\* get_stats has answered for three keyspaces, two tables and a table that
\* lists two SSTables
C36_Witness ==
    /\ last_return.call.op = "get_stats"
    /\ last_return.result.keyspace_count = 3
    /\ last_return.result.table_count = 2
    /\ last_return.result.sstable_count = 2

\* C31: after shutdown has returned, the compaction loop and the TTL sweep
\* eventually terminate.
C31_TasksEndAfterShutdown ==
    (last_return.call.op = "shutdown" /\ last_return.result = "ok")
        ~> (/\ background_tasks.compaction_loop = "done"
            /\ background_tasks.ttl_sweep = "done")

\* the keys under which the shared memtable stores a row
StoredKeys ==
    {k \in (DOMAIN shared_memtable.partitions) \X {NoneCK, 1} :
        k[2] \in DOMAIN shared_memtable.partitions[k[1]].rows}

\* key sizes and 25 bytes for every cell, summed over the stored rows
StoredRowSizes ==
    SumOver(StoredKeys,
            [k \in StoredKeys |->
                LET row == shared_memtable.partitions[k[1]].rows[k[2]]
                IN 12 + (IF k[2] = NoneCK THEN 0 ELSE 16)
                   + 25 * Cardinality(DOMAIN row.cells)])

\* C38: after any sequence of puts by one thread, size_bytes is the sum of
\* calculate_row_size over the rows the memtable stores: a put that replaces
\* a row changes it by the new size minus the old size, also when that is
\* negative.
C38_SizeBytesIsSumAfterSequentialPuts ==
    /\ shared_memtable.size_bytes = StoredRowSizes
    /\ last_return.call.op = "put" =>
           /\ last_return.result = shared_memtable.size_bytes
           /\ last_return.call.row
                  = shared_memtable.partitions[last_return.call.row.partition_key]
                        .rows[last_return.call.row.clustering_key]

\* a put has replaced a two-column row by a one-column row and has made
\* size_bytes smaller, while other rows are stored
C38_Witness ==
    /\ last_return.call.op = "put"
    /\ last_return.result < last_return.call.size_before
    /\ Cardinality(StoredKeys) >= 3

\* the rows a memtable stores, over all its partitions
StoredRows(m) ==
    UNION {{m.partitions[k].rows[c] : c \in DOMAIN m.partitions[k].rows}
           : k \in DOMAIN m.partitions}

\* C39: the order of partition keys is consistent with equality, so rows
\* under unequal partition keys are stored as distinct partitions: a put
\* under one key leaves every row stored under another key in the memtable,
\* and get for a key returns only a row of that key.
C39_UnequalKeysAreDistinctPartitions ==
    [][/\ last_return'.call.op = "put_keyed" =>
              \A r \in StoredRows(shared_memtable) :
                  r.partition_key # last_return'.call.row.partition_key =>
                      r \in StoredRows(shared_memtable')
       /\ (last_return'.call.op = "get_keyed" /\ last_return'.result.kind = "row") =>
              last_return'.result.row.partition_key
                  = last_return'.call.partition_key]_vars

====
